---------------------------- MODULE Spec2Model ----------------------------
(***************************************************************************)
(* A model of the instruction workflow of src/server.py: the six workflow  *)
(* tools (create_instruction, create_task_plan, gather_information,        *)
(* analyze_and_orchestrate, execute_step, generate_final_report) and       *)
(* get_instruction, over the instruction files under .aerith/instructions  *)
(* and the working tree the steps write to.                                *)
(*                                                                         *)
(* Encoding of Python values:                                              *)
(*   dict            a function whose domain is the set of keys present    *)
(*                   (EmptyDict is {}); "k in d" is HasKey(d, k)           *)
(*   list            a sequence                                            *)
(*   str             file contents are sequences of characters, so that    *)
(*                   truthiness and slicing are computed; other strings    *)
(*                   are TLA+ strings                                      *)
(*   path            the sequence of its components ("src/a.txt" is        *)
(*                   <<"src", "a.txt">>, "" is <<>>)                       *)
(*   None            the string PyNone; no input set holds that string     *)
(*   int(time.time())  the variable now, advanced by Tick                  *)
(*   uuid4()[:8]     any element of Ids                                    *)
(***************************************************************************)
EXTENDS Integers, Sequences, FiniteSets, TLC

VARIABLES
    store,   \* .aerith/instructions: instruction id -> the JSON document of <id>.json
    fs,      \* the working tree: path -> [kind, content]
    now,     \* the clock, int(time.time())
    last,    \* the last tool call: its name, its arguments and what it returned
    inflight \* the calls that have read their instruction file and not yet returned

vars == <<store, fs, now, last, inflight>>

---------------------------------------------------------------------------
(* Bounds of the model *)

MaxTime == 1          \* the clock runs over 0..MaxTime
MaxSubtasks == 3      \* longest subtask list given to create_task_plan (SpecPlan)
MaxCalls == 7         \* tool calls in one behaviour
MaxExecCalls == 2     \* execute_step calls in one behaviour of SpecExec
MaxPatches == 2       \* patches in one file_modification
MaxSources == 2       \* sources in one gather_information
MaxGatherCalls == 2   \* tool calls in one behaviour of SpecGather
MaxDepthArg == 2      \* the largest max_depth given to tree_directory
MaxRacers == 2        \* tool calls that run at the same time in SpecRace
MaxPlanSteps == 2     \* steps in an execution plan given in SpecAnalyze and SpecHappy

---------------------------------------------------------------------------
(* Python dicts and lists *)

EmptyDict == [k \in {} |-> 0]

HasKey(d, k) == k \in DOMAIN d

\* d[k] = v
DictSet(d, k, v) == (k :> v) @@ d

\* d.get(k, default)
DictGet(d, k, default) == IF k \in DOMAIN d THEN d[k] ELSE default

\* the dicts that hold any subset of the optional fields, each with one of its values
RECURSIVE DictsOver(_, _)
DictsOver(keys, values) ==
    IF keys = {} THEN {EmptyDict}
    ELSE LET k == CHOOSE x \in keys : TRUE
             rest == DictsOver(keys \ {k}, values)
         IN  rest \cup {DictSet(d, k, v) : d \in rest, v \in values[k]}

\* the lists of length 0..n over S
ListsUpTo(S, n) == UNION {[1..k -> S] : k \in 0..n}

PyNone == "None"

\* a variant that takes the empty str for a value
TruthyAlways(str) == TRUE

\* bool(str)
Truthy(str) == Len(str) > 0

---------------------------------------------------------------------------
(* The instruction files.  A dict whose keys are computed is kept as the   *)
(* sequence of its items in insertion order; the only such dict of a       *)
(* document is gathered_information.summary.source_types.  json.dump       *)
(* writes a key that is None as the string "null" and keeps every item, so *)
(* the file may hold one key twice; json.load keeps the first place and    *)
(* the last value of a repeated key.                                       *)

Item(key, value) == [key |-> key, value |-> value]

\* key in d
HasItem(items, key) == \E i \in 1..Len(items) : items[i].key = key

\* d[key], for a key of d
GetItem(items, key) == items[CHOOSE i \in 1..Len(items) : items[i].key = key].value

\* d[key] = value
SetItem(items, key, value) ==
    IF HasItem(items, key)
    THEN [i \in 1..Len(items) |-> IF items[i].key = key THEN Item(key, value) ELSE items[i]]
    ELSE Append(items, Item(key, value))

JsonKey(k) == IF k = PyNone THEN "null" ELSE k

\* the object json.dump writes for a dict
JsonDumpDict(items) ==
    [i \in 1..Len(items) |-> Item(JsonKey(items[i].key), items[i].value)]

\* the dict json.load makes of an object
JsonLoadDict(items) ==
    LET f[i \in 0..Len(items)] ==
            IF i = 0 THEN <<>> ELSE SetItem(f[i - 1], items[i].key, items[i].value)
    IN  f[Len(items)]

\* the document with its source_types as json.dump writes them (dumping) or as
\* json.load reads them back
WithSourceTypes(instruction, dumping) ==
    IF HasKey(instruction, "gathered_information")
    THEN LET gi == instruction["gathered_information"]
             summary == gi["summary"]
         IN  DictSet(instruction, "gathered_information",
                 DictSet(gi, "summary",
                     DictSet(summary, "source_types",
                             IF dumping THEN JsonDumpDict(summary["source_types"])
                             ELSE JsonLoadDict(summary["source_types"]))))
    ELSE instruction

JsonDump(instruction) == WithSourceTypes(instruction, TRUE)

JsonLoad(text) == WithSourceTypes(text, FALSE)

\* open(instruction_path, 'w'); json.dump(instruction, f)
SaveInstruction(files, instruction_id, instruction) ==
    DictSet(files, instruction_id, JsonDump(instruction))

---------------------------------------------------------------------------
(* The working tree and the helper functions.  fs maps each existing path  *)
(* to [kind |-> "file", content, readable] or [kind |-> "dir", ...];       *)
(* readable says whether open(path, 'r').read() decodes the file as text.  *)

File(content) == [kind |-> "file", content |-> content, readable |-> TRUE]
BinaryFile == [kind |-> "file", content |-> <<>>, readable |-> FALSE]
Dir == [kind |-> "dir", content |-> <<>>, readable |-> FALSE]

\* os.path.exists, os.path.isdir, os.path.isfile
Exists(tree, path) == path \in DOMAIN tree
IsDir(tree, path) == Exists(tree, path) /\ tree[path].kind = "dir"
IsFile(tree, path) == Exists(tree, path) /\ tree[path].kind = "file"

\* os.path.dirname
Dirname(path) == IF Len(path) = 0 THEN <<>> ELSE SubSeq(path, 1, Len(path) - 1)

\* the path and its ancestors, the empty path left out
Ancestors(path) == {SubSeq(path, 1, k) : k \in 1..Len(path)}

\* os.makedirs(d, exist_ok=True) succeeds: d is not '' and neither d nor an
\* ancestor of d is a file
MakedirsOk(tree, d) ==
    /\ Len(d) > 0
    /\ \A a \in Ancestors(d) : ~IsFile(tree, a)

Makedirs(tree, d) ==
    [q \in DOMAIN tree \cup Ancestors(d) |-> IF q \in DOMAIN tree THEN tree[q] ELSE Dir]

\* write_file returns True: makedirs of the dirname and open(path, 'w') both succeed
WriteFileOk(tree, path) ==
    /\ MakedirsOk(tree, Dirname(path))
    /\ ~IsDir(tree, path)

\* the tree after write_file(path, content); a failed makedirs or open leaves it as it was
WriteFile(tree, path, content) ==
    IF WriteFileOk(tree, path)
    THEN DictSet(Makedirs(tree, Dirname(path)), path, File(content))
    ELSE tree

\* read_file succeeds in reading the text of the file
ReadFileOk(tree, path) == IsFile(tree, path) /\ tree[path].readable

\* the str read_file returns when open or read raises: f"Error reading file: {e}"
ErrorReadingFile == <<"Error reading file">>

\* read_file never raises: the text, or its own error message
ReadFile(tree, path) == IF ReadFileOk(tree, path) THEN tree[path].content ELSE ErrorReadingFile

\* a str whose text the code does not take apart: one symbol
Str(symbol) == <<symbol>>

\* str.split(): the maximal runs of symbols other than " "
RECURSIVE SplitFrom(_, _)
SplitFrom(text, word) ==
    IF Len(text) = 0 THEN (IF Len(word) = 0 THEN <<>> ELSE <<word>>)
    ELSE IF Head(text) = " "
         THEN (IF Len(word) = 0 THEN <<>> ELSE <<word>>) \o SplitFrom(Tail(text), <<>>)
         ELSE SplitFrom(Tail(text), Append(word, Head(text)))

Split(text) == SplitFrom(text, <<>>)

\* needle in text
Contains(text, needle) ==
    \E i \in 0..(Len(text) - Len(needle)) : SubSeq(text, i + 1, i + Len(needle)) = needle

\* len(text.splitlines())
LineCount(text) ==
    Cardinality({i \in 1..Len(text) : text[i] = "\n"})
        + (IF Len(text) > 0 /\ text[Len(text)] # "\n" THEN 1 ELSE 0)

\* run_command: what the command line does is the environment's; here `true` exits 0,
\* an install command succeeds when every package is installable, an empty argument
\* vector raises inside subprocess.run, and anything else exits non-zero
InstallablePackages == {Str("good")}

RunCommand(cmd) ==
    IF Len(cmd) = 0
    THEN [success |-> FALSE, output |-> "", error |-> "exception", returncode |-> -1]
    ELSE IF cmd = <<Str("true")>>
         \/ (Len(cmd) >= 2 /\ cmd[1] \in {Str("npm"), Str("pip")} /\ cmd[2] = Str("install")
             /\ \A k \in 3..Len(cmd) : cmd[k] \in InstallablePackages \cup {Str("--save")})
    THEN [success |-> TRUE, output |-> "stdout", error |-> "", returncode |-> 0]
    ELSE [success |-> FALSE, output |-> "", error |-> "stderr", returncode |-> 1]

---------------------------------------------------------------------------
(* Inputs of the tools *)

Ids == {"a1", "b2"}                      \* the values uuid4()[:8] may take
Titles == {"", "T"}
Descriptions == {"D"}
Goals == {"G"}
Priorities == {"low", "medium", "high"}

\* last.seq counts the tool calls made so far
NoCall == [op |-> "none", args |-> EmptyDict, raised |-> "", result |-> EmptyDict, seq |-> 0]

CanCall == last.seq < MaxCalls

\* no call is between its load and its save: in every specification but SpecRace a
\* call runs from its start to its return with no other call in between
Racers == 1..MaxRacers
NoneInFlight == [racer \in Racers |-> [stage |-> "idle"]]

\* a call that returned `result`
Returned(op, args, result) ==
    [op |-> op, args |-> args, raised |-> "", result |-> result, seq |-> last.seq + 1]

\* a call that raised `exc` out of the tool function
Raised(op, args, exc) ==
    [op |-> op, args |-> args, raised |-> exc, result |-> EmptyDict, seq |-> last.seq + 1]

---------------------------------------------------------------------------
(* STEP 1: USER_INSTRUCTION *)

\* a variant that tags the new document with the step after the first
NewInstructionWrongStep(instruction_id, title, description, goal, priority, timestamp) ==
    [id |-> instruction_id,
     title |-> title,
     description |-> description,
     goal |-> goal,
     priority |-> priority,
     status |-> "created",
     created_at |-> timestamp,
     workflow_step |-> "TASK_PLANNING"]

NewInstruction(instruction_id, title, description, goal, priority, timestamp) ==
    [id |-> instruction_id,
     title |-> title,
     description |-> description,
     goal |-> goal,
     priority |-> priority,
     status |-> "created",
     created_at |-> timestamp,
     workflow_step |-> "USER_INSTRUCTION"]

create_instruction(instruction_id, title, description, goal, priority) ==
    LET instruction == NewInstruction(instruction_id, title, description, goal, priority, now)
    IN  /\ CanCall
        /\ UNCHANGED inflight
        /\ store' = SaveInstruction(store, instruction_id, instruction)
        /\ last' = Returned("create_instruction",
                        [title |-> title, description |-> description,
                         goal |-> goal, priority |-> priority],
                        [success |-> TRUE,
                         instruction_id |-> instruction_id,
                         instruction |-> instruction])
        /\ UNCHANGED <<fs, now>>

\* a variant that reports a missing file under the key error, as the git tools do
GetInstructionErrorKey(files, instruction_id) ==
    IF ~HasKey(files, instruction_id)
    THEN [success |-> FALSE, error |-> "not found"]
    ELSE [success |-> TRUE, instruction |-> JsonLoad(files[instruction_id])]

get_instruction_result(files, instruction_id) ==
    IF ~HasKey(files, instruction_id)
    THEN [success |-> FALSE, message |-> "not found"]
    ELSE [success |-> TRUE, instruction |-> JsonLoad(files[instruction_id])]

get_instruction(instruction_id) ==
    /\ CanCall
    /\ UNCHANGED inflight
    /\ last' = Returned("get_instruction", [instruction_id |-> instruction_id],
                        get_instruction_result(store, instruction_id))
    /\ UNCHANGED <<store, fs, now>>

---------------------------------------------------------------------------
(* STEP 2: TASK_PLANNING *)

RECURSIVE GCD(_, _)
GCD(a, b) == IF b = 0 THEN a ELSE GCD(b, a % b)

\* a / b of two ints, b > 0, a >= 0: the float nearest the quotient, written as the
\* fraction in lowest terms that it rounds (3/1 is 3.0, 5/2 is 2.5)
TrueDiv(a, b) ==
    LET g == GCD(a, b) IN [num |-> a \div g, den |-> b \div g]

\* subtask.get("complexity", 1)
SubtaskComplexity(subtask) == DictGet(subtask, "complexity", 1)

\* sum(subtask.get("complexity", 1) for subtask in subtasks)
RECURSIVE SumComplexity(_)
SumComplexity(subtasks) ==
    IF Len(subtasks) = 0 THEN 0
    ELSE SubtaskComplexity(Head(subtasks)) + SumComplexity(Tail(subtasks))

\* a variant with floor division, sum // len
EstimatedComplexityFloorDiv(subtasks) ==
    [num |-> SumComplexity(subtasks) \div Len(subtasks), den |-> 1]

EstimatedComplexity(subtasks) == TrueDiv(SumComplexity(subtasks), Len(subtasks))

\* f"{prefix}-{i}"
NumberedId(prefix, i) == prefix \o "-" \o ToString(i)

\* a variant that numbers every entry, whether it came with an id or not
WithIdAndStatusRenumbered(entries, prefix) ==
    [i \in 1..Len(entries) |->
        LET withId == DictSet(entries[i], "id", NumberedId(prefix, i))
        IN  IF HasKey(withId, "status") THEN withId
            ELSE DictSet(withId, "status", "pending")]

\* the loop that gives each entry lacking them an id by position and the status pending
WithIdAndStatus(entries, prefix) ==
    [i \in 1..Len(entries) |->
        LET withId == IF HasKey(entries[i], "id") THEN entries[i]
                      ELSE DictSet(entries[i], "id", NumberedId(prefix, i))
        IN  IF HasKey(withId, "status") THEN withId
            ELSE DictSet(withId, "status", "pending")]

\* a variant with all() in place of any()
AllDependencies(subtasks) == \A i \in 1..Len(subtasks) : HasKey(subtasks[i], "dependencies")

\* any("dependencies" in subtask for subtask in subtasks)
AnyDependencies(subtasks) == \E i \in 1..Len(subtasks) : HasKey(subtasks[i], "dependencies")

\* the task_plan dict, for a non-empty subtask list
TaskPlan(subtasks, timestamp) ==
    LET plan == [subtasks |-> WithIdAndStatus(subtasks, "st"),
                 total_subtasks |-> Len(subtasks),
                 created_at |-> timestamp,
                 estimated_complexity |-> EstimatedComplexity(subtasks)]
    IN  IF AnyDependencies(subtasks) THEN DictSet(plan, "has_dependencies", TRUE) ELSE plan

\* a variant that stamps the document anew
PlannedRestamps(instruction, subtasks, timestamp) ==
    DictSet(DictSet(DictSet(DictSet(instruction,
        "task_plan", TaskPlan(subtasks, timestamp)),
        "status", "planned"),
        "workflow_step", "TASK_PLANNING"),
        "created_at", timestamp)

\* a variant that leaves workflow_step as it was
PlannedKeepsStep(instruction, subtasks, timestamp) ==
    DictSet(DictSet(instruction,
        "task_plan", TaskPlan(subtasks, timestamp)),
        "status", "planned")

\* a variant that leaves the state tags of an instruction past planning alone
PlannedNeverLowers(instruction, subtasks, timestamp) ==
    IF instruction["status"] \in {"analyzed", "completed"}
    THEN DictSet(instruction, "task_plan", TaskPlan(subtasks, timestamp))
    ELSE DictSet(DictSet(DictSet(instruction,
             "task_plan", TaskPlan(subtasks, timestamp)),
             "status", "planned"),
             "workflow_step", "TASK_PLANNING")

\* the instruction as create_task_plan updates it
Planned(instruction, subtasks, timestamp) ==
    DictSet(DictSet(DictSet(instruction,
        "task_plan", TaskPlan(subtasks, timestamp)),
        "status", "planned"),
        "workflow_step", "TASK_PLANNING")

create_task_plan(instruction_id, subtasks) ==
    LET args == [instruction_id |-> instruction_id, subtasks |-> subtasks]
        result == get_instruction_result(store, instruction_id)
    IN  CanCall /\ UNCHANGED inflight /\
        IF ~result.success
        THEN /\ last' = Returned("create_task_plan", args, result)
             /\ UNCHANGED <<store, fs, now>>
        ELSE IF Len(subtasks) = 0
        THEN \* sum(...) / len(subtasks) divides by zero; nothing catches it
             /\ last' = Raised("create_task_plan", args, "ZeroDivisionError")
             /\ UNCHANGED <<store, fs, now>>
        ELSE LET instruction == Planned(result.instruction, subtasks, now)
             IN  /\ store' = SaveInstruction(store, instruction_id, instruction)
                 /\ last' = Returned("create_task_plan", args,
                                 [success |-> TRUE,
                                  message |-> "Task plan created",
                                  instruction |-> instruction])
                 /\ UNCHANGED <<fs, now>>

---------------------------------------------------------------------------
(* STEP 3: INFORMATION_GATHERING *)

\* the names os.listdir(path) returns, in no particular order
Listdir(tree, path) ==
    {q[Len(q)] : q \in {r \in DOMAIN tree : Len(r) = Len(path) + 1 /\ Dirname(r) = path}}

\* a variant without the guard that skips a file that cannot be read as text
SearchMatchesUnguarded(tree, query) ==
    {[path |-> q, line_count |-> LineCount(tree[q].content)] :
        q \in {r \in DOMAIN tree : IsFile(tree, r) /\ Contains(tree[r].content, query)}}

\* the files the search walk reads as text and finds the query in; the walk is over
\* the working tree, the instruction files under .aerith left aside
SearchMatches(tree, query) ==
    {[path |-> q, line_count |-> LineCount(tree[q].content)] :
        q \in {r \in DOMAIN tree : ReadFileOk(tree, r) /\ Contains(tree[r].content, query)}}

NoContent == [kind |-> "none"]

\* one pass of the loop over the sources: the info dict of a source
GatherSource(tree, source) ==
    LET source_type == DictGet(source, "type", PyNone)
        source_path == DictGet(source, "path", <<>>)
        source_query == DictGet(source, "query", <<>>)
        info == [source_type |-> source_type,
                 source_path |-> source_path,
                 source_query |-> source_query,
                 content |-> NoContent,
                 success |-> FALSE,
                 error |-> PyNone]
    IN  IF source_type = "file" /\ Truthy(source_path)
        THEN \* read_file returns the text, or its own error message as the text
             [info EXCEPT !.content = [kind |-> "text", text |-> ReadFile(tree, source_path)],
                          !.success = TRUE]
        ELSE IF source_type = "directory" /\ Truthy(source_path)
        THEN IF IsDir(tree, source_path)
             THEN [info EXCEPT !.content = [kind |-> "listing",
                                            names |-> Listdir(tree, source_path)],
                               !.success = TRUE]
             ELSE [info EXCEPT !.error = "Directory not found"]
        ELSE IF source_type = "command" /\ Truthy(source_query)
        THEN LET result == RunCommand(Split(source_query))
             IN  [info EXCEPT !.content = [kind |-> "output", output |-> result.output],
                              !.success = result.success,
                              !.error = IF result.success THEN PyNone ELSE result.error]
        ELSE IF source_type = "search" /\ Truthy(source_query)
        THEN [info EXCEPT !.content = [kind |-> "matches",
                                       matches |-> SearchMatches(tree, source_query)],
                          !.success = TRUE]
        ELSE [info EXCEPT !.error = "Unsupported source type"]

GatheredInfo(tree, sources) == [i \in 1..Len(sources) |-> GatherSource(tree, sources[i])]

\* the count of each source_type among the infos, in the order the loop meets them
SourceTypeCounts(gathered_info) ==
    LET f[i \in 0..Len(gathered_info)] ==
            IF i = 0 THEN <<>>
            ELSE LET source_type == gathered_info[i].source_type
                 IN  IF HasItem(f[i - 1], source_type)
                     THEN SetItem(f[i - 1], source_type, GetItem(f[i - 1], source_type) + 1)
                     ELSE SetItem(f[i - 1], source_type, 1)
    IN  f[Len(gathered_info)]

Summary(sources, gathered_info) ==
    [total_sources |-> Len(sources),
     successful_sources |->
        Cardinality({i \in 1..Len(gathered_info) : gathered_info[i].success}),
     source_types |-> SourceTypeCounts(gathered_info)]

\* a variant that moves the instruction on only when some source gave something
GatheredWhenUseful(instruction, gathered_info, summary, timestamp) ==
    LET withInfo == DictSet(instruction, "gathered_information",
                            [sources |-> gathered_info,
                             summary |-> summary,
                             gathered_at |-> timestamp])
    IN  IF summary.successful_sources > 0
        THEN DictSet(DictSet(withInfo, "status", "information_gathered"),
                     "workflow_step", "INFORMATION_GATHERING")
        ELSE withInfo

\* the instruction as gather_information updates it
Gathered(instruction, gathered_info, summary, timestamp) ==
    DictSet(DictSet(DictSet(instruction,
        "gathered_information", [sources |-> gathered_info,
                                 summary |-> summary,
                                 gathered_at |-> timestamp]),
        "status", "information_gathered"),
        "workflow_step", "INFORMATION_GATHERING")

gather_information(instruction_id, sources) ==
    LET args == [instruction_id |-> instruction_id, sources |-> sources]
        result == get_instruction_result(store, instruction_id)
    IN  CanCall /\ UNCHANGED inflight /\
        IF ~result.success
        THEN /\ last' = Returned("gather_information", args, result)
             /\ UNCHANGED <<store, fs, now>>
        ELSE LET gathered_info == GatheredInfo(fs, sources)
                 summary == Summary(sources, gathered_info)
                 instruction == Gathered(result.instruction, gathered_info, summary, now)
             IN  /\ store' = SaveInstruction(store, instruction_id, instruction)
                 /\ last' = Returned("gather_information", args,
                                 [success |-> TRUE,
                                  message |-> "Gathered information",
                                  instruction |-> instruction,
                                  summary |-> summary])
                 /\ UNCHANGED <<fs, now>>

---------------------------------------------------------------------------
(* STEP 4: ANALYSIS_AND_ORCHESTRATION *)

\* the instruction as analyze_and_orchestrate updates it
Analyzed(instruction, analysis, execution_plan, timestamp) ==
    DictSet(DictSet(DictSet(DictSet(instruction,
        "analysis", [findings |-> DictGet(analysis, "findings", <<>>),
                     recommendations |-> DictGet(analysis, "recommendations", <<>>),
                     decision_points |-> DictGet(analysis, "decision_points", <<>>),
                     analyzed_at |-> timestamp]),
        "execution_plan", [steps |-> WithIdAndStatus(execution_plan, "step"),
                           total_steps |-> Len(execution_plan),
                           current_step |-> 0,
                           created_at |-> timestamp]),
        "status", "analyzed"),
        "workflow_step", "ANALYSIS_AND_ORCHESTRATION")

\* a variant that looks for the task plan instead
PlanningDone(instruction) == HasKey(instruction, "task_plan")

\* a variant without the check that information was gathered
NoCheckOfGathering(instruction) == TRUE

\* the check that information gathering came first
GatheringDone(instruction) == HasKey(instruction, "gathered_information")

analyze_and_orchestrate(instruction_id, analysis, execution_plan) ==
    LET args == [instruction_id |-> instruction_id, analysis |-> analysis,
                 execution_plan |-> execution_plan]
        result == get_instruction_result(store, instruction_id)
    IN  CanCall /\ UNCHANGED inflight /\
        IF ~result.success
        THEN /\ last' = Returned("analyze_and_orchestrate", args, result)
             /\ UNCHANGED <<store, fs, now>>
        ELSE IF ~GatheringDone(result.instruction)
        THEN /\ last' = Returned("analyze_and_orchestrate", args,
                             [success |-> FALSE, message |-> "No gathered information found"])
             /\ UNCHANGED <<store, fs, now>>
        ELSE LET instruction == Analyzed(result.instruction, analysis, execution_plan, now)
             IN  /\ store' = SaveInstruction(store, instruction_id, instruction)
                 /\ last' = Returned("analyze_and_orchestrate", args,
                                 [success |-> TRUE,
                                  message |-> "Analysis completed",
                                  instruction |-> instruction])
                 /\ UNCHANGED <<fs, now>>

---------------------------------------------------------------------------
(* STEP 5: RESULT_SYNTHESIS, execute_step *)

Min(a, b) == IF a < b THEN a ELSE b
Max(a, b) == IF a > b THEN a ELSE b

\* the offset a slice bound k denotes in a str of length n
SliceIndex(k, n) == IF k < 0 THEN Max(0, n + k) ELSE Min(k, n)

\* text[:k] and text[k:]
SliceTo(text, k) == SubSeq(text, 1, SliceIndex(k, Len(text)))
SliceFrom(text, k) == SubSeq(text, SliceIndex(k, Len(text)) + 1, Len(text))

\* a variant that replaces the first occurrence only, as text.replace(old, new, 1)
RECURSIVE StrReplaceFirst(_, _, _)
StrReplaceFirst(text, old, new) ==
    IF Len(text) < Len(old) THEN text
    ELSE IF SubSeq(text, 1, Len(old)) = old
         THEN new \o SubSeq(text, Len(old) + 1, Len(text))
         ELSE <<Head(text)>> \o StrReplaceFirst(Tail(text), old, new)

\* text.replace(old, new), old not empty: every occurrence, left to right
RECURSIVE StrReplace(_, _, _)
StrReplace(text, old, new) ==
    IF Len(text) < Len(old) THEN text
    ELSE IF SubSeq(text, 1, Len(old)) = old
         THEN new \o StrReplace(SubSeq(text, Len(old) + 1, Len(text)), old, new)
         ELSE <<Head(text)>> \o StrReplace(Tail(text), old, new)

\* one pass of the loop over the patches
ApplyPatch(content, patch) ==
    LET patch_type == DictGet(patch, "type", PyNone)
    IN  IF patch_type = "replace"
        THEN IF /\ HasKey(patch, "old_text") /\ Truthy(patch.old_text)
                /\ HasKey(patch, "new_text") /\ Truthy(patch.new_text)
             THEN StrReplace(content, patch.old_text, patch.new_text)
             ELSE content
        ELSE IF patch_type = "insert"
        THEN IF HasKey(patch, "position") /\ HasKey(patch, "text") /\ Truthy(patch.text)
             THEN SliceTo(content, patch.position) \o patch.text
                    \o SliceFrom(content, patch.position)
             ELSE content
        ELSE IF patch_type = "delete"
        THEN IF HasKey(patch, "start") /\ HasKey(patch, "end")
             THEN SliceTo(content, patch.start) \o SliceFrom(content, patch.end)
             ELSE content
        ELSE content

RECURSIVE ApplyPatches(_, _)
ApplyPatches(content, patches) ==
    IF Len(patches) = 0 THEN content
    ELSE ApplyPatches(ApplyPatch(content, Head(patches)), Tail(patches))

\* a variant of the scan without its break: the last step whose id is step_id
FindLastStep(steps, step_id) ==
    LET hits == {i \in 1..Len(steps) : steps[i].id = step_id}
    IN  IF hits = {} THEN 0 ELSE CHOOSE i \in hits : \A j \in hits : i >= j

\* the index (from 1) of the first step whose id is step_id, 0 when there is none
FindStep(steps, step_id) ==
    LET hits == {i \in 1..Len(steps) : steps[i].id = step_id}
    IN  IF hits = {} THEN 0 ELSE CHOOSE i \in hits : \A j \in hits : i <= j

NewResult(step_id, step_type) ==
    [step_id |-> step_id,
     step_type |-> step_type,
     success |-> FALSE,
     output |-> PyNone,
     error |-> PyNone,
     artifacts |-> <<>>]

Artifact(path, action) == [type |-> "file", path |-> path, action |-> action]

\* what running a step gives: the result dict, the working tree afterwards, and whether
\* execute_step returns the result at once (returned_early) instead of recording it
Ran(result, tree) == [result |-> result, tree |-> tree, returned_early |-> FALSE]

\* the test before a file is created
CreationDetailsGiven(details) ==
    /\ HasKey(details, "file_path") /\ Truthy(details.file_path)
    /\ HasKey(details, "content") /\ Truthy(details.content)

RunFileCreation(tree, result, details) ==
    IF CreationDetailsGiven(details)
    THEN IF WriteFileOk(tree, details.file_path)
         THEN Ran([result EXCEPT !.success = TRUE,
                                 !.artifacts = <<Artifact(details.file_path, "created")>>,
                                 !.output = "File created"],
                  WriteFile(tree, details.file_path, details.content))
         ELSE Ran([result EXCEPT !.error = "Failed to create file"], tree)
    ELSE Ran([result EXCEPT !.error = "Missing file_path or content"], tree)

\* a variant that writes the file whether it exists or not
RunFileModificationCreating(tree, result, details) ==
    IF ~HasKey(details, "file_path")
    THEN Ran([result EXCEPT !.error = "TypeError"], tree)
    ELSE LET file_path == details.file_path
             original_content == ReadFile(tree, file_path)
             new_content ==
                 IF HasKey(details, "content") /\ Truthy(details.content)
                 THEN details.content
                 ELSE ApplyPatches(original_content, DictGet(details, "patches", <<>>))
         IN  IF WriteFileOk(tree, file_path)
             THEN Ran([result EXCEPT !.success = TRUE,
                                     !.artifacts = <<Artifact(file_path, "modified")>>,
                                     !.output = "File modified"],
                      WriteFile(tree, file_path, new_content))
             ELSE Ran([result EXCEPT !.error = "Failed to modify file"], tree)

RunFileModification(tree, result, details) ==
    IF ~HasKey(details, "file_path")
    THEN \* os.path.exists(None) raises TypeError, which the except clause records
         Ran([result EXCEPT !.error = "TypeError"], tree)
    ELSE IF ~Exists(tree, details.file_path)
    THEN Ran([result EXCEPT !.error = "File not found"], tree)
    ELSE LET file_path == details.file_path
             original_content == ReadFile(tree, file_path)
             new_content ==
                 IF HasKey(details, "content") /\ Truthy(details.content)
                 THEN details.content
                 ELSE ApplyPatches(original_content, DictGet(details, "patches", <<>>))
         IN  IF WriteFileOk(tree, file_path)
             THEN Ran([result EXCEPT !.success = TRUE,
                                     !.artifacts = <<Artifact(file_path, "modified")>>,
                                     !.output = "File modified"],
                      WriteFile(tree, file_path, new_content))
             ELSE Ran([result EXCEPT !.error = "Failed to modify file"], tree)

\* command if isinstance(command, list) else command.split(); a command is given
\* either as a list (key argv) or as a str (key text)
CommandLine(command) ==
    IF HasKey(command, "argv") THEN command.argv ELSE Split(command.text)

CommandGiven(details) ==
    /\ HasKey(details, "command")
    /\ Truthy(IF HasKey(details.command, "argv") THEN details.command.argv
              ELSE details.command.text)

FromCommand(tree, result, cmd_result) ==
    Ran([result EXCEPT !.success = cmd_result.success,
                       !.output = cmd_result.output,
                       !.error = IF cmd_result.success THEN PyNone ELSE cmd_result.error],
        tree)

RunCommandExecution(tree, result, details) ==
    IF CommandGiven(details)
    THEN FromCommand(tree, result, RunCommand(CommandLine(details.command)))
    ELSE Ran([result EXCEPT !.error = "Missing command"], tree)

\* a variant that records the failure of an unsupported package manager like any other
RunDependencyInstallationRecorded(tree, result, details) ==
    LET packages == DictGet(details, "packages", <<>>)
        package_manager == DictGet(details, "package_manager", "npm")
    IN  IF Truthy(packages)
        THEN IF package_manager = "npm"
             THEN FromCommand(tree, result,
                      RunCommand(<<Str("npm"), Str("install"), Str("--save")>> \o packages))
             ELSE IF package_manager = "pip"
             THEN FromCommand(tree, result,
                      RunCommand(<<Str("pip"), Str("install")>> \o packages))
             ELSE Ran([result EXCEPT !.error = "Unsupported package manager"], tree)
        ELSE Ran([result EXCEPT !.error = "No packages specified"], tree)

RunDependencyInstallation(tree, result, details) ==
    LET packages == DictGet(details, "packages", <<>>)
        package_manager == DictGet(details, "package_manager", "npm")
    IN  IF Truthy(packages)
        THEN IF package_manager = "npm"
             THEN FromCommand(tree, result,
                      RunCommand(<<Str("npm"), Str("install"), Str("--save")>> \o packages))
             ELSE IF package_manager = "pip"
             THEN FromCommand(tree, result,
                      RunCommand(<<Str("pip"), Str("install")>> \o packages))
             ELSE [result |-> [result EXCEPT !.error = "Unsupported package manager"],
                   tree |-> tree,
                   returned_early |-> TRUE]
        ELSE Ran([result EXCEPT !.error = "No packages specified"], tree)

\* the dispatch on the step's type
RunStep(tree, step, step_id, details) ==
    LET step_type == DictGet(step, "type", "unknown")
        result == NewResult(step_id, step_type)
    IN  IF step_type = "file_creation" THEN RunFileCreation(tree, result, details)
        ELSE IF step_type = "file_modification" THEN RunFileModification(tree, result, details)
        ELSE IF step_type = "command_execution" THEN RunCommandExecution(tree, result, details)
        ELSE IF step_type = "dependency_installation"
        THEN RunDependencyInstallation(tree, result, details)
        ELSE Ran([result EXCEPT !.error = "Unsupported step type"], tree)

\* steps[step_index] with the result and the status it gives
\* a variant that writes the result into every step of the plan
RecordResultInEveryStep(steps, index, result) ==
    [j \in 1..Len(steps) |->
        DictSet(DictSet(steps[j], "result", result),
                "status", IF result.success THEN "completed" ELSE "failed")]

RecordResult(steps, index, result) ==
    [steps EXCEPT ![index] =
        DictSet(DictSet(steps[index], "result", result),
                "status", IF result.success THEN "completed" ELSE "failed")]

\* a variant that moves the pointer past the step whether it succeeded or not
AdvanceOnFailure(current_step, step_index, success) ==
    IF current_step = step_index THEN step_index + 1 ELSE current_step

\* a variant that moves the pointer on by one at every success
AdvanceAtEverySuccess(current_step, step_index, success) ==
    IF success THEN current_step + 1 ELSE current_step

\* a variant that moves the pointer past whatever step succeeded
AdvanceOnAnySuccess(current_step, step_index, success) ==
    IF success THEN step_index + 1 ELSE current_step

\* current_step after a step at (0-based) step_index ran
AdvanceCurrentStep(current_step, step_index, success) ==
    IF success /\ current_step = step_index THEN step_index + 1 ELSE current_step

\* a variant that is content with one completed step
AnyCompleted(steps) ==
    \E i \in 1..Len(steps) : DictGet(steps[i], "status", PyNone) = "completed"

\* a variant that takes a failed step for a finished one
AllFinished(steps) ==
    \A i \in 1..Len(steps) : DictGet(steps[i], "status", PyNone) \in {"completed", "failed"}

\* all(step.get("status") == "completed" for step in steps)
AllCompleted(steps) == \A i \in 1..Len(steps) : DictGet(steps[i], "status", PyNone) = "completed"

\* a variant that marks the instruction failed when the step failed
ExecutedMarksFailure(instruction, index, result) ==
    LET plan == instruction["execution_plan"]
        steps == RecordResult(plan.steps, index, result)
        newPlan == [plan EXCEPT !.steps = steps,
                                !.current_step =
                                    AdvanceCurrentStep(plan.current_step, index - 1,
                                                       result.success)]
        withPlan == DictSet(instruction, "execution_plan", newPlan)
        withStatus == IF AllCompleted(steps) THEN DictSet(withPlan, "status", "completed")
                      ELSE IF ~result.success THEN DictSet(withPlan, "status", "failed")
                      ELSE withPlan
    IN  DictSet(withStatus, "workflow_step", "RESULT_SYNTHESIS")

\* a variant that takes an instruction with an unfinished step back to analyzed
ExecutedReopens(instruction, index, result) ==
    LET plan == instruction["execution_plan"]
        steps == RecordResult(plan.steps, index, result)
        newPlan == [plan EXCEPT !.steps = steps,
                                !.current_step =
                                    AdvanceCurrentStep(plan.current_step, index - 1,
                                                       result.success)]
        withPlan == DictSet(instruction, "execution_plan", newPlan)
        withStatus == DictSet(withPlan, "status",
                              IF AllCompleted(steps) THEN "completed" ELSE "analyzed")
    IN  DictSet(withStatus, "workflow_step", "RESULT_SYNTHESIS")

\* a variant that leaves workflow_step as it was
ExecutedKeepsWorkflowStep(instruction, index, result) ==
    LET plan == instruction["execution_plan"]
        steps == RecordResult(plan.steps, index, result)
        newPlan == [plan EXCEPT !.steps = steps,
                                !.current_step =
                                    AdvanceCurrentStep(plan.current_step, index - 1,
                                                       result.success)]
        withPlan == DictSet(instruction, "execution_plan", newPlan)
    IN  IF AllCompleted(steps) THEN DictSet(withPlan, "status", "completed") ELSE withPlan

\* the instruction as execute_step updates it after the step at index (from 1) ran
Executed(instruction, index, result) ==
    LET plan == instruction["execution_plan"]
        steps == RecordResult(plan.steps, index, result)
        newPlan == [plan EXCEPT !.steps = steps,
                                !.current_step =
                                    AdvanceCurrentStep(plan.current_step, index - 1,
                                                       result.success)]
        withPlan == DictSet(instruction, "execution_plan", newPlan)
        withStatus == IF AllCompleted(steps) THEN DictSet(withPlan, "status", "completed")
                      ELSE withPlan
    IN  DictSet(withStatus, "workflow_step", "RESULT_SYNTHESIS")

execute_step(instruction_id, step_id, execution_details) ==
    LET args == [instruction_id |-> instruction_id, step_id |-> step_id,
                 execution_details |-> execution_details]
        result == get_instruction_result(store, instruction_id)
    IN  CanCall /\ UNCHANGED inflight /\
        IF ~result.success
        THEN /\ last' = Returned("execute_step", args, result)
             /\ UNCHANGED <<store, fs, now>>
        ELSE IF ~HasKey(result.instruction, "execution_plan")
        THEN /\ last' = Returned("execute_step", args,
                             [success |-> FALSE, message |-> "No execution plan found"])
             /\ UNCHANGED <<store, fs, now>>
        ELSE LET steps == result.instruction["execution_plan"].steps
                 index == FindStep(steps, step_id)
             IN  IF index = 0
                 THEN /\ last' = Returned("execute_step", args,
                                      [success |-> FALSE, message |-> "Step not found"])
                      /\ UNCHANGED <<store, fs, now>>
                 ELSE LET ran == RunStep(fs, steps[index], step_id, execution_details)
                          instruction == Executed(result.instruction, index, ran.result)
                      IN  IF ran.returned_early
                          THEN /\ last' = Returned("execute_step", args, ran.result)
                               /\ UNCHANGED <<store, fs, now>>
                          ELSE /\ fs' = ran.tree
                               /\ store' = SaveInstruction(store, instruction_id, instruction)
                               /\ last' = Returned("execute_step", args,
                                               [success |-> ran.result.success,
                                                message |-> IF ran.result.success
                                                            THEN ran.result.output
                                                            ELSE ran.result.error,
                                                instruction |-> instruction,
                                                result |-> ran.result])
                               /\ UNCHANGED now

---------------------------------------------------------------------------
(* STEP 5: RESULT_SYNTHESIS, generate_final_report *)

\* instruction.get("execution_plan", {}).get("steps", [])
PlanSteps(instruction) ==
    DictGet(DictGet(instruction, "execution_plan", EmptyDict), "steps", <<>>)

StepSucceeded(step) == HasKey(step, "result") /\ DictGet(step.result, "success", FALSE)

\* a variant that puts the artifacts of a later step first
RECURSIVE CollectArtifactsLastFirst(_)
CollectArtifactsLastFirst(steps) ==
    IF Len(steps) = 0 THEN <<>>
    ELSE CollectArtifactsLastFirst(Tail(steps))
         \o (IF StepSucceeded(Head(steps)) THEN DictGet(Head(steps).result, "artifacts", <<>>)
             ELSE <<>>)

\* the artifacts of the steps whose result succeeded, in step order
RECURSIVE CollectArtifacts(_)
CollectArtifacts(steps) ==
    IF Len(steps) = 0 THEN <<>>
    ELSE (IF StepSucceeded(Head(steps)) THEN DictGet(Head(steps).result, "artifacts", <<>>)
          ELSE <<>>) \o CollectArtifacts(Tail(steps))

CountStatus(steps, statuses) ==
    Cardinality({i \in 1..Len(steps) : DictGet(steps[i], "status", PyNone) \in statuses})

ReportSummary(instruction) ==
    [planned_subtasks |->
        Len(DictGet(DictGet(instruction, "task_plan", EmptyDict), "subtasks", <<>>)),
     executed_steps |-> CountStatus(PlanSteps(instruction), {"completed", "failed"}),
     successful_steps |-> CountStatus(PlanSteps(instruction), {"completed"}),
     artifacts |-> CollectArtifacts(PlanSteps(instruction))]

\* the entries of details.result_synthesis.executed_steps: the steps that have a result
RECURSIVE ExecutedSteps(_)
ExecutedSteps(steps) ==
    IF Len(steps) = 0 THEN <<>>
    ELSE (IF HasKey(Head(steps), "result")
          THEN <<[id |-> DictGet(Head(steps), "id", PyNone),
                  title |-> DictGet(Head(steps), "title", PyNone),
                  type |-> DictGet(Head(steps), "type", PyNone),
                  status |-> DictGet(Head(steps), "status", PyNone),
                  output |-> DictGet(Head(steps).result, "output", PyNone)]>>
          ELSE <<>>) \o ExecutedSteps(Tail(steps))

ReportDetails(instruction) ==
    [user_instruction |-> [description |-> DictGet(instruction, "description", PyNone),
                           goal |-> DictGet(instruction, "goal", PyNone)],
     task_planning |-> DictGet(instruction, "task_plan", EmptyDict),
     information_gathering |->
        DictGet(DictGet(instruction, "gathered_information", EmptyDict), "summary", EmptyDict),
     analysis_and_orchestration |->
        [findings |-> DictGet(DictGet(instruction, "analysis", EmptyDict), "findings", <<>>),
         recommendations |->
            DictGet(DictGet(instruction, "analysis", EmptyDict), "recommendations", <<>>)],
     result_synthesis |-> [executed_steps |-> ExecutedSteps(PlanSteps(instruction))]]

Report(instruction, instruction_id, include_details, timestamp) ==
    LET report == [instruction_id |-> instruction_id,
                   title |-> DictGet(instruction, "title", PyNone),
                   status |-> DictGet(instruction, "status", PyNone),
                   created_at |-> DictGet(instruction, "created_at", 0),
                   completed_at |-> timestamp,
                   workflow_steps_completed |->
                       <<DictGet(instruction, "workflow_step", "USER_INSTRUCTION")>>,
                   summary |-> ReportSummary(instruction)]
    IN  IF include_details THEN DictSet(report, "details", ReportDetails(instruction))
        ELSE report

\* a variant that leaves the status as it is
ReportedStatusKept(status) == status

\* "completed" if instruction["status"] != "failed" else "failed"
ReportedStatus(status) == IF status # "failed" THEN "completed" ELSE "failed"

\* the instruction as generate_final_report updates it
Reported(instruction, report) ==
    DictSet(DictSet(instruction, "final_report", report),
            "status", ReportedStatus(instruction.status))

generate_final_report(instruction_id, include_details) ==
    LET args == [instruction_id |-> instruction_id, include_details |-> include_details]
        result == get_instruction_result(store, instruction_id)
    IN  CanCall /\ UNCHANGED inflight /\
        IF ~result.success
        THEN /\ last' = Returned("generate_final_report", args, result)
             /\ UNCHANGED <<store, fs, now>>
        ELSE LET report == Report(result.instruction, instruction_id, include_details, now)
                 instruction == Reported(result.instruction, report)
             IN  /\ store' = SaveInstruction(store, instruction_id, instruction)
                 /\ last' = Returned("generate_final_report", args,
                                 [success |-> TRUE,
                                  message |-> "Generated final report",
                                  instruction |-> instruction,
                                  report |-> report])
                 /\ UNCHANGED <<fs, now>>

---------------------------------------------------------------------------
(* The directory tree renderer, tree_directory.  The renderer looks inside *)
(* the names, so in the trees it is given a name is the sequence of its    *)
(* characters and a path the sequence of its names.  The text it returns   *)
(* is kept as the sequence of its lines: the first line names the root,    *)
(* an entry line holds its prefix (a sequence of "bar" for the bar and     *)
(* three blanks and "pad" for four blanks), its connector ("mid", "last"), *)
(* the name and the size suffix.  Every directory can be listed and the    *)
(* size of every file can be read.                                         *)

KiB == 1024

Lowercase ==
    <<"a", "b", "c", "d", "e", "f", "g", "h", "i", "j", "k", "l", "m",
      "n", "o", "p", "q", "r", "s", "t", "u", "v", "w", "x", "y", "z">>

\* ord(c), for the characters of the names in the trees
CodePoint(c) ==
    IF c = "." THEN 46
    ELSE IF c = "_" THEN 95
    ELSE 96 + (CHOOSE k \in 1..Len(Lowercase) : Lowercase[k] = c)

\* a < b for two str: the order sorted() puts names in
RECURSIVE NameLess(_, _)
NameLess(a, b) ==
    IF Len(b) = 0 THEN FALSE
    ELSE IF Len(a) = 0 THEN TRUE
    ELSE IF Head(a) = Head(b) THEN NameLess(Tail(a), Tail(b))
    ELSE CodePoint(Head(a)) < CodePoint(Head(b))

\* sorted(names)
RECURSIVE Sorted(_)
Sorted(names) ==
    IF names = {} THEN <<>>
    ELSE LET least == CHOOSE a \in names : \A b \in names \ {a} : NameLess(a, b)
         IN  <<least>> \o Sorted(names \ {least})

\* fnmatch.fnmatch(name, pattern) for patterns made of characters, * and ?
RECURSIVE Fnmatch(_, _)
Fnmatch(name, pattern) ==
    IF Len(pattern) = 0 THEN Len(name) = 0
    ELSE IF Head(pattern) = "*"
         THEN \/ Fnmatch(name, Tail(pattern))
              \/ (Len(name) > 0 /\ Fnmatch(Tail(name), pattern))
    ELSE /\ Len(name) > 0
         /\ (Head(pattern) = "?" \/ Head(pattern) = Head(name))
         /\ Fnmatch(Tail(name), Tail(pattern))

common_excludes ==
    << <<"_", "_", "p", "y", "c", "a", "c", "h", "e", "_", "_">>,
      <<".", "g", "i", "t">>,
      <<"n", "o", "d", "e", "_", "m", "o", "d", "u", "l", "e", "s">>,
      <<"v", "e", "n", "v">>,
      <<".", "v", "e", "n", "v">>,
      <<"e", "n", "v">>,
      <<".", "e", "n", "v">>,
      <<".", "p", "y", "t", "e", "s", "t", "_", "c", "a", "c", "h", "e">>,
      <<".", "c", "o", "v", "e", "r", "a", "g", "e">>,
      <<"h", "t", "m", "l", "c", "o", "v">>,
      <<"d", "i", "s", "t">>,
      <<"b", "u", "i", "l", "d">>,
      <<"*", ".", "p", "y", "c">>,
      <<"*", ".", "p", "y", "o">>,
      <<"*", ".", "p", "y", "d">>,
      <<"*", ".", "s", "o">>,
      <<"*", ".", "d", "y", "l", "i", "b">>,
      <<"*", ".", "d", "l", "l">>,
      <<"*", ".", "e", "x", "e">>,
      <<"*", ".", "c", "l", "a", "s", "s">>,
      <<"*", ".", "o">>,
      <<"*", ".", "a">>,
      <<"*", ".", "j", "a", "r">> >>

\* the exclude patterns of a call
Excludes(params) ==
    (IF params.exclude_common THEN common_excludes ELSE <<>>)
        \o (IF HasKey(params, "custom_excludes") THEN params.custom_excludes ELSE <<>>)

should_exclude(name, excludes) ==
    \E k \in 1..Len(excludes) : Fnmatch(name, excludes[k])

\* what should_include returns and what it adds to stats["excluded_items"]
Verdict(include) == [include |-> include, excluded_items |-> IF include THEN 0 ELSE 1]

\* a variant that counts a hidden entry and leaves it in
ShowsHidden(name, is_dir, params) ==
    IF ~params.show_hidden /\ Len(name) > 0 /\ Head(name) = "."
    THEN [include |-> TRUE, excluded_items |-> 1]
    ELSE IF ~is_dir /\ ~params.show_files THEN Verdict(FALSE)
    ELSE IF should_exclude(name, Excludes(params)) THEN Verdict(FALSE)
    ELSE IF HasKey(params, "pattern") /\ Truthy(params.pattern)
    THEN Verdict(Fnmatch(name, params.pattern))
    ELSE Verdict(TRUE)

\* a variant that runs every test and counts each one that rejects the entry
CountsEveryRule(name, is_dir, params) ==
    LET hidden == ~params.show_hidden /\ Len(name) > 0 /\ Head(name) = "."
        suppressed == ~is_dir /\ ~params.show_files
        excluded == should_exclude(name, Excludes(params))
        unmatched == HasKey(params, "pattern") /\ Truthy(params.pattern)
                     /\ ~Fnmatch(name, params.pattern)
        Count(rejects) == IF rejects THEN 1 ELSE 0
    IN  [include |-> ~(hidden \/ suppressed \/ excluded \/ unmatched),
         excluded_items |-> Count(hidden) + Count(suppressed) + Count(excluded)
                            + Count(unmatched)]

should_include(name, is_dir, params) ==
    IF ~params.show_hidden /\ Len(name) > 0 /\ Head(name) = "."
    THEN Verdict(FALSE)
    ELSE IF ~is_dir /\ ~params.show_files THEN Verdict(FALSE)
    ELSE IF should_exclude(name, Excludes(params)) THEN Verdict(FALSE)
    ELSE IF HasKey(params, "pattern") /\ Truthy(params.pattern)
    THEN Verdict(Fnmatch(name, params.pattern))
    ELSE Verdict(TRUE)

Stats(directories, files, total_size, excluded_items) ==
    [directories |-> directories, files |-> files,
     total_size |-> total_size, excluded_items |-> excluded_items]

AddStats(a, b) ==
    Stats(a.directories + b.directories, a.files + b.files,
          a.total_size + b.total_size, a.excluded_items + b.excluded_items)

\* os.path.getsize
Getsize(tree, path) == Len(tree[path].content)

\* f" ({size} bytes)" if size < 1024 else f" ({size/1024:.1f} KB)", the tenths of
\* a KB rounded to the nearest, a tie to the even one
SizeSuffix(size) ==
    IF size < KiB THEN [unit |-> "bytes", n |-> size]
    ELSE LET scaled == size * 10
             floor == scaled \div KiB
             rest == scaled % KiB
             up == rest * 2 > KiB \/ (rest * 2 = KiB /\ floor % 2 = 1)
         IN  [unit |-> "KB tenths", n |-> IF up THEN floor + 1 ELSE floor]

NoSuffix == [unit |-> "none", n |-> 0]

\* "│\n├── ...\n"
EllipsisLines == <<[kind |-> "bar"], [kind |-> "ellipsis"]>>

\* the test before generate_tree calls itself on a directory
Deeper(depth, max_depth) == depth < max_depth

\* the items of os.listdir(path) that should_include keeps, sorted, each with is_dir
FilteredItems(tree, path, params) ==
    LET items == Sorted(Listdir(tree, path))
    IN  SelectSeq([k \in 1..Len(items) |->
                      [item |-> items[k], is_dir |-> IsDir(tree, Append(path, items[k]))]],
                  LAMBDA e : should_include(e.item, e.is_dir, params).include)

\* what the filter loop adds to stats["excluded_items"]
ExcludedHere(tree, path, params) ==
    LET items == Sorted(Listdir(tree, path))
        f[k \in 0..Len(items)] ==
            IF k = 0 THEN 0
            ELSE f[k - 1] + should_include(items[k], IsDir(tree, Append(path, items[k])),
                                           params).excluded_items
    IN  f[Len(items)]

RECURSIVE generate_tree(_, _, _, _, _)
RECURSIVE RenderFrom(_, _, _, _, _, _, _)
RECURSIVE LastOfListing(_, _, _, _, _, _, _)

\* a variant that gives the terminal connector to the last item of the whole
\* listing, so that none has it when a filter removes that item
LastOfListing(tree, path, prefix, depth, params, filtered, i) ==
    IF i > Len(filtered) THEN [result |-> <<>>, stats |-> Stats(0, 0, 0, 0)]
    ELSE LET item == filtered[i].item
             is_dir == filtered[i].is_dir
             items == Sorted(Listdir(tree, path))
             is_last_item == item = items[Len(items)]
             full_path == Append(path, item)
             counted == IF is_dir THEN Stats(1, 0, 0, 0)
                        ELSE Stats(0, 1, Getsize(tree, full_path), 0)
             line == [kind |-> "entry",
                      prefix |-> prefix,
                      connector |-> IF is_last_item THEN "last" ELSE "mid",
                      name |-> item,
                      suffix |-> IF ~is_dir /\ params.show_files
                                 THEN SizeSuffix(Getsize(tree, full_path))
                                 ELSE NoSuffix]
             below == IF is_dir /\ Deeper(depth, params.max_depth)
                      THEN generate_tree(tree, full_path,
                                         Append(prefix, IF is_last_item THEN "pad" ELSE "bar"),
                                         depth + 1, params)
                      ELSE [result |-> <<>>, stats |-> Stats(0, 0, 0, 0)]
             rest == LastOfListing(tree, path, prefix, depth, params, filtered, i + 1)
         IN  [result |-> <<line>> \o below.result \o rest.result,
              stats |-> AddStats(AddStats(counted, below.stats), rest.stats)]

\* the loop over filtered_items from its i-th pass on: the lines and the stats it adds
RenderFrom(tree, path, prefix, depth, params, filtered, i) ==
    IF i > Len(filtered) THEN [result |-> <<>>, stats |-> Stats(0, 0, 0, 0)]
    ELSE LET item == filtered[i].item
             is_dir == filtered[i].is_dir
             is_last_item == i = Len(filtered)
             full_path == Append(path, item)
             counted == IF is_dir THEN Stats(1, 0, 0, 0)
                        ELSE Stats(0, 1, Getsize(tree, full_path), 0)
             line == [kind |-> "entry",
                      prefix |-> prefix,
                      connector |-> IF is_last_item THEN "last" ELSE "mid",
                      name |-> item,
                      suffix |-> IF ~is_dir /\ params.show_files
                                 THEN SizeSuffix(Getsize(tree, full_path))
                                 ELSE NoSuffix]
             below == IF is_dir /\ Deeper(depth, params.max_depth)
                      THEN generate_tree(tree, full_path,
                                         Append(prefix, IF is_last_item THEN "pad" ELSE "bar"),
                                         depth + 1, params)
                      ELSE [result |-> <<>>, stats |-> Stats(0, 0, 0, 0)]
             rest == RenderFrom(tree, path, prefix, depth, params, filtered, i + 1)
         IN  [result |-> <<line>> \o below.result \o rest.result,
              stats |-> AddStats(AddStats(counted, below.stats), rest.stats)]

generate_tree(tree, path, prefix, depth, params) ==
    IF depth > params.max_depth
    THEN [result |-> EllipsisLines, stats |-> Stats(0, 0, 0, 0)]
    ELSE LET rendered == RenderFrom(tree, path, prefix, depth, params,
                                    FilteredItems(tree, path, params), 1)
         IN  [result |-> rendered.result,
              stats |-> AddStats(Stats(0, 0, 0, ExcludedHere(tree, path, params)),
                                 rendered.stats)]

\* os.path.exists(base_path) and os.path.isdir(base_path); the project root is <<>>
IsTreeDir(tree, path) == Len(path) = 0 \/ IsDir(tree, path)

tree_directory(params) ==
    /\ CanCall
    /\ UNCHANGED inflight
    /\ IF ~IsTreeDir(fs, params.directory_path)
       THEN last' = Returned("tree_directory", params,
                             [success |-> FALSE, message |-> "Directory not found"])
       ELSE LET generated == generate_tree(fs, params.directory_path, <<>>, 0, params)
            IN  last' = Returned("tree_directory", params,
                                 [success |-> TRUE,
                                  tree |-> <<[kind |-> "root",
                                             path |-> params.directory_path]>>
                                           \o generated.result,
                                  stats |-> generated.stats,
                                  message |-> "Generated tree"])
    /\ UNCHANGED <<store, fs, now>>

\* a second passes; the clock is looked at after a create_instruction call
Tick ==
    /\ now < MaxTime
    /\ last.op = "create_instruction"
    /\ now' = now + 1
    /\ UNCHANGED <<store, fs, last, inflight>>

---------------------------------------------------------------------------
(* SpecCreate: create_instruction over all its inputs, and get_instruction *)

InitCreate ==
    /\ store = EmptyDict
    /\ fs = EmptyDict
    /\ now = 0
    /\ last = NoCall
    /\ inflight = NoneInFlight

DoCreate ==
    \E i \in Ids, t \in Titles, d \in Descriptions, g \in Goals, p \in Priorities :
        create_instruction(i, t, d, g, p)

DoGet == \E i \in Ids : get_instruction(i)

NextCreate == DoCreate \/ DoGet \/ Tick

SpecCreate == InitCreate /\ [][NextCreate]_vars

---------------------------------------------------------------------------
(* SpecPlan: one create_task_plan call on a created instruction, over the  *)
(* subtask lists of up to MaxSubtasks entries with and without a           *)
(* complexity and a dependencies list.                                     *)

Complexities == {2, 3, 4}
DependencyLists == {<<>>, <<"st-1">>}

SubtaskInputs ==
    {DictSet(d, "title", "t") :
        d \in DictsOver({"complexity", "dependencies"},
                        [complexity |-> Complexities, dependencies |-> DependencyLists])}

InitPlan ==
    /\ now \in 0..MaxTime
    /\ \E t \in 0..now :
          store = SaveInstruction(EmptyDict, "a1", NewInstruction("a1", "T", "D", "G", "medium", t))
    /\ fs = EmptyDict
    /\ last = NoCall
    /\ inflight = NoneInFlight

DoPlanWide ==
    /\ last.op = "none"
    /\ \E subtasks \in ListsUpTo(SubtaskInputs, MaxSubtasks) : create_task_plan("a1", subtasks)

NextPlan == DoPlanWide

SpecPlan == InitPlan /\ [][NextPlan]_vars

---------------------------------------------------------------------------
(* Spec: the workflow on one instruction, "a1", with every tool also       *)
(* called on "b2", an id under which nothing is ever stored.  The inputs   *)
(* are few and chosen to reach every branch of the tools.                  *)

WorkflowId == "a1"
MissingId == "b2"
CallIds == {WorkflowId, MissingId}

InitTree ==
    (<<"d">> :> Dir) @@ (<<"d", "f">> :> File(<<"a", "b", "a">>)) @@ (<<"bin">> :> BinaryFile)

PlanInputs ==
    {<<>>,
     <<[title |-> "t"]>>,
     <<[title |-> "t", id |-> "x", status |-> "done", complexity |-> 3],
       [title |-> "t", dependencies |-> <<"x">>]>>}

SourceInputs ==
    {<<[type |-> "file", path |-> <<"d", "f">>], [query |-> <<"a">>]>>}

AnalysisInputs == {[findings |-> <<"finding">>]}

StepPlans ==
    {<<[title |-> "s", type |-> "file_creation"],
       [title |-> "s", type |-> "command_execution"]>>}

StepIds == {"step-1", "step-2"}

DetailInputs ==
    {[file_path |-> <<"d", "g">>, content |-> <<"a">>],
     [command |-> [text |-> <<"true">>]],
     [command |-> [argv |-> <<Str("false")>>]]}

Init ==
    /\ store = EmptyDict
    /\ fs = InitTree
    /\ now = 0
    /\ last = NoCall
    /\ inflight = NoneInFlight

DoCreateOne == create_instruction(WorkflowId, "T", "D", "G", "medium")

DoGetAny == \E i \in CallIds : get_instruction(i)

DoPlan ==
    \/ \E subtasks \in PlanInputs : create_task_plan(WorkflowId, subtasks)
    \/ create_task_plan(MissingId, <<[title |-> "t"]>>)

DoGather ==
    \/ \E sources \in SourceInputs : gather_information(WorkflowId, sources)
    \/ gather_information(MissingId, <<>>)

DoAnalyze ==
    \/ \E analysis \in AnalysisInputs, plan \in StepPlans :
          analyze_and_orchestrate(WorkflowId, analysis, plan)
    \/ analyze_and_orchestrate(MissingId, EmptyDict, <<>>)

DoExecute ==
    \/ \E step_id \in StepIds, details \in DetailInputs :
          execute_step(WorkflowId, step_id, details)
    \/ execute_step(WorkflowId, "absent", EmptyDict)
    \/ execute_step(MissingId, "step-1", EmptyDict)

DoReport ==
    \/ \E include_details \in {FALSE} : generate_final_report(WorkflowId, include_details)
    \/ generate_final_report(MissingId, FALSE)

Next ==
    \/ DoCreateOne
    \/ DoGetAny
    \/ DoPlan
    \/ DoGather
    \/ DoAnalyze
    \/ DoExecute
    \/ DoReport
    \/ Tick

Spec == Init /\ [][Next]_vars

---------------------------------------------------------------------------
(* SpecExec: up to MaxExecCalls execute_step calls on an instruction that  *)
(* was created, or created, gathered and analyzed with one of ExecPlans,   *)
(* over file paths and contents of every kind.                             *)

ExecPlans ==
    {<<[title |-> "s", type |-> "file_creation", id |-> "dup"],
       [title |-> "s", type |-> "command_execution", id |-> "dup"]>>,
     <<[title |-> "s", type |-> "file_creation"],
       [title |-> "s", type |-> "file_modification"]>>}

CreatedDoc == NewInstruction(WorkflowId, "T", "D", "G", "medium", 0)

GatheredDoc ==
    Gathered(JsonLoad(JsonDump(CreatedDoc)), GatheredInfo(InitTree, <<>>),
             Summary(<<>>, GatheredInfo(InitTree, <<>>)), 0)

AnalyzedDoc(plan) == Analyzed(JsonLoad(JsonDump(GatheredDoc)), EmptyDict, plan, 0)

\* '' , a bare name, a new file in a directory, a directory, a file, a path through a file
CreationPaths ==
    {<<>>, <<"g">>, <<"d", "g">>, <<"d">>, <<"d", "f">>, <<"d", "f", "h">>}

Contents == {<<>>, <<"b">>}

ExecDetails ==
    DictsOver({"file_path", "content"}, [file_path |-> CreationPaths, content |-> Contents])

ExecStepIds == {"dup", "step-1", "step-2"}

InitExec ==
    /\ store \in {SaveInstruction(EmptyDict, WorkflowId, CreatedDoc)}
                 \cup {SaveInstruction(EmptyDict, WorkflowId, AnalyzedDoc(plan)) :
                          plan \in ExecPlans}
    /\ fs = InitTree
    /\ now = 0
    /\ last = NoCall
    /\ inflight = NoneInFlight

DoExecuteWide ==
    /\ last.seq < MaxExecCalls
    /\ \E step_id \in ExecStepIds, details \in ExecDetails :
          execute_step(WorkflowId, step_id, details)

NextExec == DoExecuteWide

SpecExec == InitExec /\ [][NextExec]_vars

---------------------------------------------------------------------------
(* SpecPatch: one execute_step call on a file_modification step, over the  *)
(* contents of the target file and every list of up to MaxPatches patches. *)

PatchTarget == <<"d", "f">>

PatchContents == {<<>>, <<"a", "b", "a">>, <<"a", "a", "a">>}

PatchInputs ==
    {[type |-> "replace", old_text |-> old, new_text |-> new] :
        old \in {<<"a">>, <<"b", "b">>, <<"a", "a">>}, new \in {<<>>, <<"b">>, <<"c", "a">>}}
    \cup {[type |-> "insert", position |-> position, text |-> <<"c">>] :
            position \in {-1, 0, 2, 5}}
    \cup {[type |-> "delete", start |-> 1, end |-> end] : end \in {0, 2}}

ModificationPlan == <<[title |-> "s", type |-> "file_modification"]>>

InitPatch ==
    /\ store = SaveInstruction(EmptyDict, WorkflowId, AnalyzedDoc(ModificationPlan))
    /\ fs \in {(<<"d">> :> Dir) @@ (PatchTarget :> File(content)) : content \in PatchContents}
    /\ now = 0
    /\ last = NoCall
    /\ inflight = NoneInFlight

DoModify ==
    /\ last.op = "none"
    /\ \E patches \in ListsUpTo(PatchInputs, MaxPatches) :
          execute_step(WorkflowId, "step-1", [file_path |-> PatchTarget, patches |-> patches])

NextPatch == DoModify

SpecPatch == InitPatch /\ [][NextPatch]_vars

---------------------------------------------------------------------------
(* SpecGather: up to MaxGatherCalls calls on a created instruction, the    *)
(* gather_information calls over every list of up to MaxSources sources,   *)
(* among them a source without a type and one whose type is "null".        *)

\* a file whose bytes do not decode as text
Unreadable(content) == [kind |-> "file", content |-> content, readable |-> FALSE]

GatherTrees ==
    {InitTree @@ (<<"d", "raw">> :> Unreadable(<<"a">>)),
     InitTree @@ (<<"d", "raw">> :> Unreadable(<<"a">>)) @@ (<<"d", "h">> :> File(<<"b">>))}

GatherSourceInputs ==
    {[type |-> "search", query |-> <<"a">>],
     [type |-> "search", query |-> <<"c">>],
     [type |-> "search"],
     [type |-> "file", path |-> <<"bin">>],
     [type |-> "directory", path |-> <<"d">>],
     [type |-> "command", query |-> <<"true">>],
     [query |-> <<"a">>],
     [type |-> "null"]}

InitGather ==
    /\ store = SaveInstruction(EmptyDict, WorkflowId, CreatedDoc)
    /\ fs \in GatherTrees
    /\ now = 0
    /\ last = NoCall
    /\ inflight = NoneInFlight

DoGatherWide ==
    /\ last.seq < MaxGatherCalls
    /\ \E sources \in ListsUpTo(GatherSourceInputs, MaxSources) :
          gather_information(WorkflowId, sources)

DoPlanAfter ==
    /\ last.seq < MaxGatherCalls
    /\ create_task_plan(WorkflowId, <<[title |-> "t"]>>)

DoGetAfter ==
    /\ last.seq < MaxGatherCalls
    /\ get_instruction(WorkflowId)

NextGather == DoGatherWide \/ DoPlanAfter \/ DoGetAfter

SpecGather == InitGather /\ [][NextGather]_vars

---------------------------------------------------------------------------
(* SpecTree: one tree_directory call, over directory trees with hidden,    *)
(* excluded and nested entries and over the arguments of the call.         *)

TreeInputs ==
    {EmptyDict,
     \* a file and a hidden file
     (<< <<"a">> >> :> File(<<"x", "y">>)) @@ (<< <<".", "h">> >> :> File(<<"x">>)),
     \* a file and a hidden directory that is not empty
     (<< <<"b">> >> :> File(<<"x">>)) @@ (<< <<".", "g", "i", "t">> >> :> Dir)
        @@ (<< <<".", "g", "i", "t">>, <<"c">> >> :> File(<<"x">>)),
     \* a file whose name is on the list of common excludes, and a hidden file
     (<< <<"d", "i", "s", "t">> >> :> File(<<"x">>)) @@ (<< <<".", "h">> >> :> File(<<"x">>)),
     \* directories three deep
     (<< <<"a">> >> :> Dir) @@ (<< <<"a">>, <<"b">> >> :> Dir)
        @@ (<< <<"a">>, <<"b">>, <<"c">> >> :> File(<<"x">>))
        @@ (<< <<"a">>, <<"b">>, <<"d">> >> :> Dir)
        @@ (<< <<"a">>, <<"b">>, <<"d">>, <<"e">> >> :> File(<<"x">>))
        @@ (<< <<"f">> >> :> File(<<>>)),
     \* entries that several rules reject
     (<< <<"e", "n", "v">> >> :> Dir) @@ (<< <<"e", "n", "v">>, <<"a">> >> :> File(<<"x">>))
        @@ (<< <<"a", ".", "s", "o">> >> :> File(<<"x">>))
        @@ (<< <<"b">> >> :> File(<<"x">>))
        @@ (<< <<".", "a">> >> :> File(<<"x">>))
        @@ (<< <<"a">> >> :> Dir)}

TreeParams ==
    {[directory_path |-> directory_path, max_depth |-> max_depth,
      show_files |-> show_files, show_hidden |-> show_hidden,
      exclude_common |-> exclude_common] @@ optional :
        directory_path \in {<<>>, << <<"a">> >>, << <<"z">> >>},
        max_depth \in (-1)..MaxDepthArg,
        show_files \in BOOLEAN, show_hidden \in BOOLEAN, exclude_common \in BOOLEAN,
        optional \in DictsOver({"pattern", "custom_excludes"},
                               [pattern |-> {<<"a", "*">>},
                                custom_excludes |-> {<< <<"b">> >>}])}

InitTreeSpec ==
    /\ store = EmptyDict
    /\ fs \in TreeInputs
    /\ now = 0
    /\ last = NoCall
    /\ inflight = NoneInFlight

DoTree ==
    /\ last.op = "none"
    /\ \E params \in TreeParams : tree_directory(params)

NextTree == DoTree

SpecTree == InitTreeSpec /\ [][NextTree]_vars

---------------------------------------------------------------------------
(* SpecRace: up to MaxRacers tool calls on one instruction at the same     *)
(* time.  A call is two steps, as in the code: it reads the instruction    *)
(* file (get_instruction), and later it changes the dict it read and       *)
(* writes the file; steps of other calls may come in between.              *)

RaceCalls ==
    {[op |-> "create_task_plan", instruction_id |-> WorkflowId,
      subtasks |-> <<[title |-> "t"]>>],
     [op |-> "gather_information", instruction_id |-> WorkflowId, sources |-> <<>>],
     [op |-> "gather_information", instruction_id |-> WorkflowId,
      sources |-> <<[type |-> "file", path |-> <<"d", "f">>]>>],
     [op |-> "generate_final_report", instruction_id |-> WorkflowId,
      include_details |-> FALSE]}

\* a variant that reads the file again before changing it
FreshCopy(loaded, files, instruction_id) == JsonLoad(files[instruction_id])

\* the dict a call changes and writes: the one it read at its start
WorkingCopy(loaded, files, instruction_id) == loaded

\* the dict a call writes, from the dict it holds
Changed(call, instruction, tree, timestamp) ==
    IF call.op = "create_task_plan" THEN Planned(instruction, call.subtasks, timestamp)
    ELSE IF call.op = "gather_information"
    THEN Gathered(instruction, GatheredInfo(tree, call.sources),
                  Summary(call.sources, GatheredInfo(tree, call.sources)), timestamp)
    ELSE Reported(instruction,
                  Report(instruction, call.instruction_id, call.include_details, timestamp))

InitRace ==
    /\ store = SaveInstruction(EmptyDict, WorkflowId, CreatedDoc)
    /\ fs = InitTree
    /\ now = 0
    /\ last = NoCall
    /\ inflight = NoneInFlight

\* result = get_instruction(instruction_id)
RaceLoad ==
    \E racer \in Racers, call \in RaceCalls :
        /\ inflight[racer].stage = "idle"
        /\ inflight' = [inflight EXCEPT ![racer] =
                           [stage |-> "loaded", call |-> call,
                            result |-> get_instruction_result(store, call.instruction_id)]]
        /\ UNCHANGED <<store, fs, now, last>>

\* the rest of the call: the early return when the read failed, otherwise the
\* change, json.dump and the return
RaceSave ==
    \E racer \in Racers :
        /\ inflight[racer].stage = "loaded"
        /\ LET call == inflight[racer].call
               result == inflight[racer].result
           IN  IF ~result.success
               THEN /\ last' = Returned(call.op, call, result)
                    /\ inflight' = [inflight EXCEPT ![racer] =
                                       [stage |-> "done", call |-> call,
                                        success |-> FALSE]]
                    /\ UNCHANGED store
               ELSE LET instruction ==
                            Changed(call,
                                    WorkingCopy(result.instruction, store,
                                                call.instruction_id),
                                    fs, now)
                    IN  /\ store' = SaveInstruction(store, call.instruction_id,
                                                    instruction)
                        /\ last' = Returned(call.op, call,
                                            [success |-> TRUE,
                                             instruction |-> instruction])
                        /\ inflight' = [inflight EXCEPT ![racer] =
                                           [stage |-> "done", call |-> call,
                                            success |-> TRUE]]
        /\ UNCHANGED <<fs, now>>

NextRace == RaceLoad \/ RaceSave

SpecRace == InitRace /\ [][NextRace]_vars

---------------------------------------------------------------------------
(* SpecSteps: up to MaxExecCalls execute_step calls on an analyzed         *)
(* instruction whose plan has one step of every type, a step of a type     *)
(* the code does not know and a step without a type, over details that     *)
(* make each type succeed and fail, and a generate_final_report call at    *)
(* any point.                                                              *)

StepKindsPlan ==
    <<[title |-> "s", type |-> "file_creation"],
      [title |-> "s", type |-> "file_modification"],
      [title |-> "s", type |-> "command_execution"],
      [title |-> "s", type |-> "dependency_installation"],
      [title |-> "s", type |-> "deployment"],
      [title |-> "s"]>>

StepKindsDetails ==
    {EmptyDict,
     [file_path |-> <<"d", "g">>, content |-> <<"b">>],
     [file_path |-> <<"d", "f">>],
     [command |-> [text |-> <<"true">>]],
     [command |-> [argv |-> <<Str("false")>>]],
     [packages |-> <<Str("good")>>],
     [packages |-> <<Str("bad")>>, package_manager |-> "pip"],
     [packages |-> <<Str("good")>>, package_manager |-> "yarn"],
     [packages |-> <<>>, package_manager |-> "yarn"]}

\* the document after create_task_plan, gather_information and analyze_and_orchestrate
PlannedAnalyzedDoc(subtasks, plan) ==
    LET planned == Planned(JsonLoad(JsonDump(CreatedDoc)), subtasks, 0)
        gathered == Gathered(JsonLoad(JsonDump(planned)), GatheredInfo(InitTree, <<>>),
                             Summary(<<>>, GatheredInfo(InitTree, <<>>)), 0)
    IN  Analyzed(JsonLoad(JsonDump(gathered)), EmptyDict, plan, 0)

InitSteps ==
    /\ store \in {SaveInstruction(EmptyDict, WorkflowId, AnalyzedDoc(StepKindsPlan)),
                  SaveInstruction(EmptyDict, WorkflowId,
                      PlannedAnalyzedDoc(<<[title |-> "t"], [title |-> "u"]>>,
                                         StepKindsPlan))}
    /\ fs = InitTree
    /\ now = 0
    /\ last = NoCall
    /\ inflight = NoneInFlight

DoExecuteKinds ==
    /\ last.seq < MaxExecCalls
    /\ \E k \in 1..Len(StepKindsPlan), details \in StepKindsDetails :
          execute_step(WorkflowId, NumberedId("step", k), details)

DoReportKinds ==
    /\ last.op # "generate_final_report"
    /\ \E include_details \in BOOLEAN : generate_final_report(WorkflowId, include_details)

NextSteps == DoExecuteKinds \/ DoReportKinds

SpecSteps == InitSteps /\ [][NextSteps]_vars

---------------------------------------------------------------------------
(* SpecSources: one gather_information call, on an instruction that was    *)
(* created or created and planned or on an id without a file, over every   *)
(* list of up to MaxSources sources: each type with its field given,       *)
(* empty and left out, a type the code does not know, and no type.         *)

SourceKinds ==
    {[type |-> "file", path |-> <<"d", "f">>],
     [type |-> "file", path |-> <<"bin">>],
     [type |-> "file", path |-> <<"nope">>],
     [type |-> "file", path |-> <<>>],
     [type |-> "file", query |-> <<"a">>],
     [type |-> "directory", path |-> <<"d">>],
     [type |-> "directory", path |-> <<"nope">>],
     [type |-> "directory"],
     [type |-> "command", query |-> <<"true">>],
     [type |-> "command", query |-> <<"false">>],
     [type |-> "command", path |-> <<"d">>],
     [type |-> "search", query |-> <<"a">>],
     [type |-> "search", query |-> <<>>],
     [type |-> "url", path |-> <<"d", "f">>, query |-> <<"a">>],
     [type |-> "null"],
     [query |-> <<"a">>]}

PlannedDoc == Planned(JsonLoad(JsonDump(CreatedDoc)), <<[title |-> "t"]>>, 0)

InitSources ==
    /\ store \in {SaveInstruction(EmptyDict, WorkflowId, CreatedDoc),
                  SaveInstruction(EmptyDict, WorkflowId, PlannedDoc)}
    /\ fs = InitTree
    /\ now = 0
    /\ last = NoCall
    /\ inflight = NoneInFlight

DoGatherKinds ==
    /\ last.op = "none"
    /\ \E instruction_id \in CallIds, sources \in ListsUpTo(SourceKinds, MaxSources) :
          gather_information(instruction_id, sources)

NextSources == DoGatherKinds

SpecSources == InitSources /\ [][NextSources]_vars

---------------------------------------------------------------------------
(* SpecAnalyze: one analyze_and_orchestrate call, on an instruction that   *)
(* was created, or gathered, or analyzed before, or on an id without a     *)
(* file, over analyses holding any of the three lists and over every plan  *)
(* of up to MaxPlanSteps steps that come with or without id and status.    *)

AnalysisKinds ==
    DictsOver({"findings", "recommendations", "decision_points"},
              [findings |-> {<<"f">>}, recommendations |-> {<<"r", "s">>},
               decision_points |-> {<<"p">>}])

AnalyzeStepKinds ==
    {[title |-> "s", type |-> "file_creation"],
     [title |-> "s", type |-> "file_creation", id |-> "x"],
     [title |-> "s", type |-> "file_creation", status |-> "completed"],
     [title |-> "s", type |-> "file_creation", id |-> "step-2", status |-> "ready"]}

InitAnalyze ==
    /\ store \in {SaveInstruction(EmptyDict, WorkflowId, CreatedDoc),
                  SaveInstruction(EmptyDict, WorkflowId, GatheredDoc),
                  SaveInstruction(EmptyDict, WorkflowId, AnalyzedDoc(StepKindsPlan))}
    /\ fs = InitTree
    /\ now \in 0..MaxTime
    /\ last = NoCall
    /\ inflight = NoneInFlight

DoAnalyzeKinds ==
    /\ last.op = "none"
    /\ \E instruction_id \in CallIds, analysis \in AnalysisKinds,
          plan \in ListsUpTo(AnalyzeStepKinds, MaxPlanSteps) :
          analyze_and_orchestrate(instruction_id, analysis, plan)

NextAnalyze == DoAnalyzeKinds

SpecAnalyze == InitAnalyze /\ [][NextAnalyze]_vars

---------------------------------------------------------------------------
(* SpecHappy: the six operations called once each in the intended order,   *)
(* the steps of the plan one after the other in plan order, for as long as *)
(* each step succeeds. The plans have 1..MaxPlanSteps steps that come      *)
(* without a status and with ids that differ.                              *)

HappyStepKinds ==
    {[title |-> "s", type |-> "file_creation"],
     [title |-> "s", type |-> "file_modification"],
     [title |-> "s", type |-> "command_execution"],
     [title |-> "s", type |-> "command_execution", id |-> "x"]}

HappyPlans ==
    {plan \in ListsUpTo(HappyStepKinds, MaxPlanSteps) :
        /\ Len(plan) >= 1
        /\ \A j \in 1..Len(plan), k \in 1..Len(plan) :
              j # k => WithIdAndStatus(plan, "step")[j].id
                          # WithIdAndStatus(plan, "step")[k].id}

HappyDetails ==
    {[file_path |-> <<"d", "g">>, content |-> <<"b">>],
     [file_path |-> <<"d", "f">>],
     [command |-> [text |-> <<"true">>]],
     [command |-> [argv |-> <<Str("false")>>]]}

\* the steps of the stored plan
HappySteps == store[WorkflowId]["execution_plan"].steps

InitHappy ==
    /\ store = EmptyDict
    /\ fs = InitTree
    /\ now = 0
    /\ last = NoCall
    /\ inflight = NoneInFlight

HappyCreate ==
    /\ last.op = "none"
    /\ \E title \in Titles, priority \in Priorities :
          create_instruction(WorkflowId, title, "D", "G", priority)

HappyPlan ==
    /\ last.op = "create_instruction"
    /\ \E subtasks \in PlanInputs \ {<<>>} : create_task_plan(WorkflowId, subtasks)

HappyGather ==
    /\ last.op = "create_task_plan"
    /\ \E sources \in SourceInputs \cup {<<>>} : gather_information(WorkflowId, sources)

HappyAnalyze ==
    /\ last.op = "gather_information"
    /\ \E analysis \in AnalysisInputs, plan \in HappyPlans :
          analyze_and_orchestrate(WorkflowId, analysis, plan)

\* the call after analyze_and_orchestrate runs the first step of the plan, the call
\* after a step that succeeded the next one
HappyExecute ==
    /\ last.op \in {"analyze_and_orchestrate", "execute_step"}
    /\ last.result.success
    /\ last.seq - 3 <= Len(HappySteps)
    /\ \E details \in HappyDetails :
          execute_step(WorkflowId, HappySteps[last.seq - 3].id, details)

HappyReport ==
    /\ last.op = "execute_step"
    /\ last.result.success
    /\ last.seq - 4 = Len(HappySteps)
    /\ \E include_details \in BOOLEAN : generate_final_report(WorkflowId, include_details)

NextHappy ==
    \/ HappyCreate
    \/ HappyPlan
    \/ HappyGather
    \/ HappyAnalyze
    \/ HappyExecute
    \/ HappyReport

SpecHappy == InitHappy /\ [][NextHappy]_vars

---------------------------------------------------------------------------
(* The claims *)

CallReturned(op) == last.op = op /\ last.raised = ""

\* C1 (SpecCreate): create_instruction returns success with a document whose status is
\* created and whose workflow_step is USER_INSTRUCTION, built from the arguments; the
\* document is stored under the returned id, and get_instruction on that id then
\* returns success with the same document.
C1_CreateReturnsAndPersists ==
    last.op = "create_instruction" =>
        /\ last.raised = ""
        /\ last.result.success
        /\ LET doc == last.result.instruction
               iid == last.result.instruction_id
           IN  /\ doc.status = "created"
               /\ doc.workflow_step = "USER_INSTRUCTION"
               /\ doc.id = iid
               /\ doc.title = last.args.title /\ doc.priority = last.args.priority
               /\ doc.description = last.args.description /\ doc.goal = last.args.goal
               /\ HasKey(store, iid)
               /\ store[iid] = doc
               /\ get_instruction_result(store, iid) = [success |-> TRUE, instruction |-> doc]

C1_Witness ==
    /\ CallReturned("create_instruction")
    /\ last.args.title = "" /\ last.args.priority = "high"
    /\ get_instruction_result(store, last.result.instruction_id).success

\* C2 (SpecCreate): the id a create_instruction call returns is not the id of an
\* instruction stored before the call, so no create overwrites a stored document.
C2_CreateIdIsFresh ==
    [][(last'.op = "create_instruction" /\ last' # last)
          => ~HasKey(store, last'.result.instruction_id)]_vars

\* C4 (SpecPlan): after create_task_plan with n >= 1 subtasks, estimated_complexity
\* times n equals the sum of the complexities, a subtask without one counting 1; for
\* the complexities 3, 2, 4 it is 3.
ComplexityOf(subtasks, i) ==
    IF "complexity" \in DOMAIN subtasks[i] THEN subtasks[i].complexity ELSE 1

TotalComplexity(subtasks) ==
    LET f[i \in 0..Len(subtasks)] == IF i = 0 THEN 0 ELSE f[i - 1] + ComplexityOf(subtasks, i)
    IN  f[Len(subtasks)]

PlanSucceeded ==
    /\ CallReturned("create_task_plan")
    /\ last.result.success

C5_HasDependenciesIffNonEmpty ==
    PlanSucceeded =>
        LET plan == store[last.args.instruction_id].task_plan
            given == last.args.subtasks
        IN  (HasKey(plan, "has_dependencies") /\ plan.has_dependencies)
            <=> (\E i \in 1..Len(given) :
                    HasKey(given[i], "dependencies") /\ Len(given[i].dependencies) > 0)

\* C5 as amended (SpecPlan): after create_task_plan, has_dependencies is true if and
\* only if some subtask carries a dependencies key, be its list empty or not; when no
\* subtask carries one, the task plan has no has_dependencies field.
C5_HasDependenciesIffKey ==
    PlanSucceeded =>
        LET plan == store[last.args.instruction_id].task_plan
        IN  IF \E i \in 1..Len(plan.subtasks) : "dependencies" \in DOMAIN plan.subtasks[i]
            THEN HasKey(plan, "has_dependencies") /\ plan.has_dependencies = TRUE
            ELSE ~HasKey(plan, "has_dependencies")

C5_Witness ==
    /\ PlanSucceeded
    /\ Len(last.args.subtasks) = 2
    /\ ~HasKey(last.args.subtasks[1], "dependencies")
    /\ HasKey(last.args.subtasks[2], "dependencies")
    /\ last.args.subtasks[2].dependencies = <<>>
    /\ store["a1"].task_plan.has_dependencies

\* C6 (SpecPlan): create_task_plan on a stored instruction with an empty subtask list
\* does not raise: it returns a result with success = false.
C6_EmptyPlanReturnsFailure ==
    (/\ last.op = "create_task_plan"
     /\ HasKey(store, last.args.instruction_id)
     /\ Len(last.args.subtasks) = 0)
        => (last.raised = "" /\ ~last.result.success)

\* a tool call was made in this step
Called(op) == last'.seq = last.seq + 1 /\ last'.op = op

\* C3 (Spec): create_task_plan on a stored instruction with a non-empty subtask list
\* returns success, and the document stored afterwards has a task_plan whose
\* total_subtasks is the number of subtasks given, status planned and workflow_step
\* TASK_PLANNING.
C3_PlanStoresPlanAndStatus ==
    [][(/\ Called("create_task_plan")
        /\ HasKey(store, last'.args.instruction_id)
        /\ Len(last'.args.subtasks) >= 1)
          => (/\ last'.raised = ""
              /\ last'.result.success
              /\ LET doc == store'[last'.args.instruction_id]
                 IN  /\ HasKey(doc, "task_plan")
                     /\ doc.task_plan.total_subtasks = Len(last'.args.subtasks)
                     /\ Len(doc.task_plan.subtasks) = Len(last'.args.subtasks)
                     /\ doc.status = "planned"
                     /\ doc.workflow_step = "TASK_PLANNING")]_vars

C3_Witness ==
    /\ PlanSucceeded
    /\ Len(last.args.subtasks) = 2
    /\ HasKey(store[last.args.instruction_id], "execution_plan")
    /\ store[last.args.instruction_id].status = "planned"
    /\ store[last.args.instruction_id].workflow_step = "TASK_PLANNING"
    /\ store[last.args.instruction_id].task_plan.total_subtasks = 2

LaterTools ==
    {"create_task_plan", "gather_information", "analyze_and_orchestrate",
     "execute_step", "generate_final_report"}

\* C7 (Spec): a call of create_task_plan, gather_information, analyze_and_orchestrate,
\* execute_step or generate_final_report with an id that has no stored document
\* returns a result with success = false and a message, raises nothing, and leaves
\* the store as it was: no document for that id, no other document changed.
C7_MissingInstructionIsReported ==
    [][(/\ last'.seq = last.seq + 1
        /\ last'.op \in LaterTools
        /\ ~HasKey(store, last'.args.instruction_id))
          => (/\ last'.raised = ""
              /\ HasKey(last'.result, "success") /\ last'.result.success = FALSE
              /\ HasKey(last'.result, "message")
              /\ store' = store)]_vars

C7_Witness ==
    /\ CallReturned("execute_step")
    /\ last.args.instruction_id = MissingId
    /\ ~HasKey(store, MissingId)
    /\ HasKey(store, WorkflowId)
    /\ ~last.result.success

\* C8 (Spec): analyze_and_orchestrate on a stored instruction without
\* gathered_information returns success = false and changes nothing: the store, and
\* with it the document's status, workflow_step, analysis and execution_plan, is the
\* same after the call as before.
C8_AnalyzeNeedsGathering ==
    [][(/\ Called("analyze_and_orchestrate")
        /\ HasKey(store, last'.args.instruction_id)
        /\ ~HasKey(store[last'.args.instruction_id], "gathered_information"))
          => (/\ last'.raised = ""
              /\ last'.result.success = FALSE
              /\ HasKey(last'.result, "message")
              /\ store' = store)]_vars

C8_Witness ==
    /\ CallReturned("analyze_and_orchestrate")
    /\ ~last.result.success
    /\ HasKey(store, last.args.instruction_id)
    /\ HasKey(store[last.args.instruction_id], "task_plan")
    /\ ~HasKey(store[last.args.instruction_id], "gathered_information")
    /\ ~HasKey(store[last.args.instruction_id], "execution_plan")

\* the steps of the stored execution plan of instruction i
StoredSteps(files, i) == files[i]["execution_plan"].steps

\* C9 (SpecExec): execute_step returns success = false and leaves the store as it was
\* when the stored instruction has no execution_plan or no step of the plan has the
\* given id; when steps share the given id, the one that is run and updated is the
\* first in plan order, and every other step stays as it was.
C9_ExecuteFindsFirstStep ==
    [][(Called("execute_step") /\ HasKey(store, last'.args.instruction_id))
          => LET i == last'.args.instruction_id
                 sid == last'.args.step_id
             IN  IF ~HasKey(store[i], "execution_plan")
                 THEN /\ last'.raised = "" /\ last'.result.success = FALSE
                      /\ store' = store
                 ELSE IF \A k \in 1..Len(StoredSteps(store, i)) :
                            StoredSteps(store, i)[k].id # sid
                 THEN /\ last'.raised = "" /\ last'.result.success = FALSE
                      /\ store' = store
                 ELSE HasKey(last'.result, "result") =>
                        \E k \in 1..Len(StoredSteps(store, i)) :
                            /\ StoredSteps(store, i)[k].id = sid
                            /\ \A j \in 1..(k - 1) : StoredSteps(store, i)[j].id # sid
                            /\ Len(StoredSteps(store', i)) = Len(StoredSteps(store, i))
                            /\ HasKey(StoredSteps(store', i)[k], "result")
                            /\ StoredSteps(store', i)[k].result = last'.result.result
                            /\ last'.result.result.step_type = StoredSteps(store, i)[k].type
                            /\ \A j \in 1..Len(StoredSteps(store, i)) :
                                 j # k => StoredSteps(store', i)[j] = StoredSteps(store, i)[j]]_vars

C9_Witness ==
    /\ CallReturned("execute_step")
    /\ last.args.step_id = "dup"
    /\ HasKey(last.result, "result")
    /\ HasKey(store[WorkflowId], "execution_plan")
    /\ StoredSteps(store, WorkflowId)[1].id = "dup"
    /\ StoredSteps(store, WorkflowId)[2].id = "dup"
    /\ HasKey(StoredSteps(store, WorkflowId)[1], "result")
    /\ ~HasKey(StoredSteps(store, WorkflowId)[2], "result")

\* C10 (SpecExec): execute_step on a file_creation step with file_path f and content c
\* in execution_details, whatever f and c are, succeeds, leaves f a file whose
\* content is exactly c, and records exactly the artifact {file, f, created}.
C10_FileCreationWritesAnyFile ==
    (/\ CallReturned("execute_step")
     /\ HasKey(last.result, "result")
     /\ last.result.result.step_type = "file_creation"
     /\ HasKey(last.args.execution_details, "file_path")
     /\ HasKey(last.args.execution_details, "content"))
        => LET f == last.args.execution_details.file_path
               c == last.args.execution_details.content
           IN  /\ last.result.success
               /\ IsFile(fs, f)
               /\ fs[f].content = c
               /\ last.result.result.artifacts = <<Artifact(f, "created")>>

\* text with every symbol equal to old replaced by the symbols of new
ReplacedPointwise(text, old, new) ==
    LET f[i \in 0..Len(text)] ==
            IF i = 0 THEN <<>>
            ELSE f[i - 1] \o (IF text[i] = old THEN new ELSE <<text[i]>>)
    IN  f[Len(text)]

ReplacePatch(patch) ==
    /\ patch.type = "replace"
    /\ Len(patch.old_text) > 0 /\ Len(patch.new_text) > 0

\* C11 (SpecPatch): execute_step on a file_modification step with one replace patch
\* (old_text and new_text non-empty) replaces every occurrence of old_text in the
\* target, not only the first, so that none is left when new_text shares no symbol
\* with old_text; with two patches the file ends as the second patch
\* makes it from the content the first patch produced.
C11_ReplaceAllInOrder ==
    [][Called("execute_step") =>
         LET patches == last'.args.execution_details.patches
             before == fs[PatchTarget].content
             after == fs'[PatchTarget].content
         IN  /\ last'.result.success
             /\ (Len(patches) = 1 /\ ReplacePatch(patches[1])
                                  /\ Len(patches[1].old_text) = 1)
                   => after = ReplacedPointwise(before, patches[1].old_text[1],
                                                patches[1].new_text)
             /\ (Len(patches) = 1 /\ ReplacePatch(patches[1])
                                  /\ \A i \in 1..Len(patches[1].old_text),
                                        j \in 1..Len(patches[1].new_text) :
                                          patches[1].old_text[i] # patches[1].new_text[j])
                   => ~Contains(after, patches[1].old_text)
             /\ Len(patches) = 2
                   => after = ApplyPatch(ApplyPatch(before, patches[1]), patches[2])]_vars

C11_Witness ==
    /\ CallReturned("execute_step")
    /\ last.result.result.step_type = "file_modification"
    /\ last.args.execution_details.patches
         = <<[type |-> "replace", old_text |-> <<"a">>, new_text |-> <<"b">>],
             [type |-> "replace", old_text |-> <<"b", "b">>, new_text |-> <<"c", "a">>]>>
    /\ fs[PatchTarget].content = <<"c", "a", "b">>

\* execution_details hold a command that the environment runs and that fails
FailingCommand(details) ==
    /\ CommandGiven(details)
    /\ ~RunCommand(CommandLine(details.command)).success

\* the step a call of execute_step on instruction i with step_id sid finds is step k
Finds(files, i, sid, k) ==
    /\ HasKey(files, i) /\ HasKey(files[i], "execution_plan")
    /\ k \in 1..Len(StoredSteps(files, i))
    /\ StoredSteps(files, i)[k].id = sid
    /\ \A j \in 1..(k - 1) : StoredSteps(files, i)[j].id # sid

\* C12 (Spec): execute_step on a command_execution step with a failing command, on
\* the first call and on every repeated call, returns success = false without
\* raising, leaves the step's stored status failed and current_step where it was;
\* generate_final_report on the instruction afterwards returns success.
C12_FailingCommandIsRepeatable ==
    [][/\ \A k \in UNION {1..Len(plan) : plan \in StepPlans} :
            (/\ Called("execute_step")
             /\ Finds(store, last'.args.instruction_id, last'.args.step_id, k)
             /\ StoredSteps(store, last'.args.instruction_id)[k].type = "command_execution"
             /\ FailingCommand(last'.args.execution_details))
               => LET i == last'.args.instruction_id
                  IN  /\ last'.raised = ""
                      /\ last'.result.success = FALSE
                      /\ StoredSteps(store', i)[k].status = "failed"
                      /\ store'[i]["execution_plan"].current_step
                           = store[i]["execution_plan"].current_step
       /\ (Called("generate_final_report") /\ HasKey(store, last'.args.instruction_id))
               => (last'.raised = "" /\ last'.result.success)]_vars

\* the command step failed, a report counted it, and the same step has failed again
C12_Witness ==
    /\ CallReturned("execute_step")
    /\ last.args.step_id = "step-2"
    /\ FailingCommand(last.args.execution_details)
    /\ ~last.result.success
    /\ HasKey(last.result, "result")
    /\ HasKey(store[WorkflowId], "final_report")
    /\ store[WorkflowId]["final_report"].summary.executed_steps = 1
    /\ ~HasKey(StoredSteps(store, WorkflowId)[1], "result")
    /\ StoredSteps(store, WorkflowId)[2].result.step_type = "command_execution"
    /\ StoredSteps(store, WorkflowId)[2].status = "failed"
    /\ store[WorkflowId]["execution_plan"].current_step = 0

\* the stored file of each instruction reads back and writes out as itself
RoundTrip == \A id \in DOMAIN store : JsonDump(JsonLoad(store[id])) = store[id]

\* C13 (SpecGather): loading a stored instruction and saving the loaded document
\* back, nothing changed in between, leaves the stored content identical, and
\* get_instruction never changes what is stored.
C13_RoundTripIsIdentity ==
    /\ []RoundTrip
    /\ [][Called("get_instruction") => store' = store]_vars

\* the i-th source of the call is a search with a query
SearchSource(sources, i) ==
    /\ HasKey(sources[i], "type") /\ sources[i].type = "search"
    /\ HasKey(sources[i], "query") /\ Len(sources[i].query) > 0

\* C17 (SpecGather): gather_information with a search source, over a tree holding
\* files that contain the query and a file that cannot be read as text: the source's
\* result has success = true and no error, its content lists exactly the readable
\* files containing the query, and no unreadable file is in it.
C17_SearchSkipsUnreadable ==
    (CallReturned("gather_information") /\ HasKey(store, last.args.instruction_id))
        => /\ last.result.success
           /\ \A i \in 1..Len(last.args.sources) :
                SearchSource(last.args.sources, i) =>
                    LET info == store[last.args.instruction_id]
                                    ["gathered_information"].sources[i]
                        query == last.args.sources[i].query
                        listed == {m.path : m \in info.content.matches}
                    IN  /\ info.success
                        /\ info.error = PyNone
                        /\ info.content.kind = "matches"
                        /\ listed = {q \in DOMAIN fs :
                                        /\ fs[q].kind = "file" /\ fs[q].readable
                                        /\ Contains(fs[q].content, query)}
                        /\ \A q \in listed : fs[q].readable

C17_Witness ==
    /\ CallReturned("gather_information")
    /\ last.args.sources = <<[type |-> "search", query |-> <<"a">>]>>
    /\ Exists(fs, <<"d", "raw">>) /\ ~fs[<<"d", "raw">>].readable
    /\ Contains(fs[<<"d", "raw">>].content, <<"a">>)
    /\ Exists(fs, <<"d", "h">>)
    /\ store[WorkflowId]["gathered_information"].sources[1].success
    /\ store[WorkflowId]["gathered_information"].sources[1].content.matches
         = {[path |-> <<"d", "f">>, line_count |-> 1]}

\* C14 (Spec): generate_final_report on a stored instruction, whatever was run on it
\* before, returns success, stores final_report in the document, and leaves status
\* completed, or failed if it was failed before the call.
C14_ReportCompletes ==
    [][(Called("generate_final_report") /\ HasKey(store, last'.args.instruction_id))
          => LET i == last'.args.instruction_id
             IN  /\ last'.raised = ""
                 /\ last'.result.success
                 /\ HasKey(store'[i], "final_report")
                 /\ store'[i]["final_report"] = last'.result.report
                 /\ store'[i].status = IF store[i].status = "failed" THEN "failed"
                                       ELSE "completed"]_vars

\* a report made after a step failed, and one made right after create
C14_Witness ==
    /\ CallReturned("generate_final_report")
    /\ last.result.success
    /\ store[WorkflowId].status = "completed"
    /\ HasKey(store[WorkflowId], "execution_plan")
    /\ \E k \in 1..Len(StoredSteps(store, WorkflowId)) :
          StoredSteps(store, WorkflowId)[k].status = "failed"
    /\ store[WorkflowId]["final_report"].status = "analyzed"

TreeReturned == CallReturned("tree_directory") /\ last.result.success

Dotfile(name) == Len(name) > 0 /\ Head(name) = "."

\* a file of the directory that no filter of the call rejects
VisibleFile(tree, path, params) ==
    /\ IsFile(tree, path)
    /\ ~Dotfile(path[Len(path)])
    /\ params.show_files
    /\ \A k \in 1..Len(Excludes(params)) : ~Fnmatch(path[Len(path)], Excludes(params)[k])
    /\ HasKey(params, "pattern") => Fnmatch(path[Len(path)], params.pattern)

\* the entries of the directory
Entries(tree, path) == {q \in DOMAIN tree : Len(q) = Len(path) + 1 /\ Dirname(q) = path}

\* C15 (SpecTree): tree_directory with show_hidden = false (and max_depth >= 0) on a
\* directory whose entries are exactly one visible file and one dotfile entry returns
\* success with stats.files = 1 and stats.excluded_items = 1.
C15_OneVisibleOneHidden ==
    (/\ CallReturned("tree_directory")
     /\ IsTreeDir(fs, last.args.directory_path)
     /\ ~last.args.show_hidden
     /\ last.args.max_depth >= 0
     /\ \E v, h \in Entries(fs, last.args.directory_path) :
           /\ Entries(fs, last.args.directory_path) = {v, h}
           /\ VisibleFile(fs, v, last.args)
           /\ Dotfile(h[Len(h)]))
        => /\ last.result.success
           /\ last.result.stats.files = 1
           /\ last.result.stats.excluded_items = 1

\* the dotfile entry is a directory with a file in it, and only its name hides it
C15_Witness ==
    /\ TreeReturned
    /\ last.args.directory_path = <<>>
    /\ ~last.args.show_hidden /\ last.args.show_files /\ ~last.args.exclude_common
    /\ last.args.max_depth = 2
    /\ IsDir(fs, << <<".", "g", "i", "t">> >>)
    /\ Entries(fs, <<>>) = {<< <<".", "g", "i", "t">> >>, << <<"b">> >>}
    /\ VisibleFile(fs, << <<"b">> >>, last.args)
    /\ last.result.stats = Stats(0, 1, 1, 1)

\* path is under the directory of the call and no filter rejects it or a directory
\* above it
Shown(tree, base, path, params) ==
    /\ Exists(tree, path)
    /\ Len(path) > Len(base) /\ SubSeq(path, 1, Len(base)) = base
    /\ \A k \in (Len(base) + 1)..Len(path) :
          should_include(path[k], IsDir(tree, SubSeq(path, 1, k)), params).include

\* C16 (SpecTree): for every max_depth and tree, a directory nested deeper than
\* max_depth is rendered as an ellipsis marker and is not recursed into: the
\* rendering holds the marker, and no entry below such a directory is in it.
C16_DeepDirectoryIsEllipsis ==
    TreeReturned =>
        LET base == last.args.directory_path
            max_depth == last.args.max_depth
            lines == last.result.tree
        IN  /\ (\/ max_depth < 0
                \/ \E path \in DOMAIN fs :
                      /\ IsDir(fs, path) /\ Shown(fs, base, path, last.args)
                      /\ Len(path) - Len(base) = max_depth + 1)
                  => \E n \in 1..Len(lines) : lines[n].kind = "ellipsis"
            /\ \A n \in 1..Len(lines) :
                  lines[n].kind = "entry" => Len(lines[n].prefix) <= max_depth

CreationFields == {"id", "title", "description", "goal", "priority", "created_at"}

\* C18 (Spec): no call of create_task_plan, gather_information,
\* analyze_and_orchestrate, execute_step or generate_final_report changes the id,
\* title, description, goal, priority or created_at of a stored instruction: they
\* stay as create_instruction wrote them.
C18_CreationFieldsAreKept ==
    [][(last'.seq = last.seq + 1 /\ last'.op \in LaterTools)
          => \A id \in DOMAIN store :
                /\ id \in DOMAIN store'
                /\ store'[id].id = id
                /\ \A field \in CreationFields : store'[id][field] = store[id][field]]_vars

\* a report stored a second after the instruction was created
C18_Witness ==
    /\ CallReturned("generate_final_report")
    /\ last.args.instruction_id = WorkflowId
    /\ HasKey(store, WorkflowId)
    /\ HasKey(store[WorkflowId], "task_plan")
    /\ HasKey(store[WorkflowId], "execution_plan")
    /\ store[WorkflowId].created_at = 0
    /\ store[WorkflowId]["final_report"].completed_at = 1
    /\ store[WorkflowId].title = last.result.report.title

\* the keys of the document that the tool assigns
Assigns(op) ==
    IF op = "create_task_plan" THEN {"task_plan", "status", "workflow_step"}
    ELSE IF op = "gather_information"
    THEN {"gathered_information", "status", "workflow_step"}
    ELSE {"final_report", "status"}

\* C19 (SpecRace): nothing in a call's read-modify-write cycle detects a write made
\* since its read: the call returns success and the file it leaves is the document
\* it read with its own change, so whatever another call stored in between is gone;
\* the witness is a racing create_task_plan and gather_information that both
\* returned success and left a document without task_plan.
C19_LastWriterWins ==
    [][\A racer \in Racers :
          (inflight[racer].stage = "loaded" /\ inflight'[racer].stage = "done")
             => LET call == inflight[racer].call
                    read == JsonDump(inflight[racer].result.instruction)
                    left == store'[call.instruction_id]
                IN  /\ last'.result.success
                    /\ DOMAIN left = DOMAIN read \cup Assigns(call.op)
                    /\ \A key \in DOMAIN read \ Assigns(call.op) : left[key] = read[key]]_vars

C19_Witness ==
    /\ \E p, g \in Racers :
          /\ inflight[p].stage = "done" /\ inflight[p].success
          /\ inflight[p].call.op = "create_task_plan"
          /\ inflight[g].stage = "done" /\ inflight[g].success
          /\ inflight[g].call.op = "gather_information"
    /\ \A racer \in Racers : inflight[racer].stage # "loaded"
    /\ HasKey(store[WorkflowId], "gathered_information")
    /\ ~HasKey(store[WorkflowId], "task_plan")

\* execute_step ran the step at position k of the stored plan and returned its result
RanStep(k) ==
    /\ Called("execute_step")
    /\ HasKey(last'.result, "result")
    /\ Finds(store, last'.args.instruction_id, last'.args.step_id, k)

\* C20 (SpecExec): when execute_step runs a found step to its end, with success or
\* with failure, the stored entry of that step holds the returned result and the
\* status completed if the result succeeded and failed otherwise; every other step
\* of the plan keeps the result and the status it had (or keeps having none).
C20_OnlyTheRunStepIsWritten ==
    [][\A k \in UNION {1..Len(plan) : plan \in ExecPlans} :
          RanStep(k)
             => LET i == last'.args.instruction_id
                    before == StoredSteps(store, i)
                    after == StoredSteps(store', i)
                IN  /\ Len(after) = Len(before)
                    /\ after[k]["result"] = last'.result.result
                    /\ after[k]["status"] = IF last'.result.result.success
                                            THEN "completed" ELSE "failed"
                    /\ \A j \in (1..Len(before)) \ {k} :
                          /\ HasKey(after[j], "result") = HasKey(before[j], "result")
                          /\ HasKey(after[j], "result")
                                => after[j]["result"] = before[j]["result"]
                          /\ HasKey(after[j], "status") = HasKey(before[j], "status")
                          /\ HasKey(after[j], "status")
                                => after[j]["status"] = before[j]["status"]]_vars

\* a step failed in the last call while another step of the plan stays completed
C20_Witness ==
    /\ last.op = "execute_step" /\ last.raised = ""
    /\ HasKey(last.result, "result") /\ ~last.result.result.success
    /\ HasKey(store, last.args.instruction_id)
    /\ LET steps == StoredSteps(store, last.args.instruction_id)
       IN  \E k, j \in 1..Len(steps) :
              /\ k # j
              /\ DictGet(steps[k], "status", PyNone) = "failed"
              /\ DictGet(steps[k], "result", PyNone) = last.result.result
              /\ DictGet(steps[j], "status", PyNone) = "completed"
              /\ HasKey(steps[j], "result") /\ steps[j]["result"].success

\* execution_plan.current_step of the stored instruction i
Pointer(files, i) == files[i]["execution_plan"].current_step

\* C21 (SpecExec): execute_step moves current_step forward by exactly one when the
\* step it ran sits at the index current_step held before the call and the run
\* succeeded; after a failed run, or a run of a step ahead of or behind the pointer,
\* and after a call that ran no step, current_step is what it was.
C21_PointerAdvancesOnlyInOrder ==
    [][/\ \A k \in UNION {1..Len(plan) : plan \in ExecPlans} :
             RanStep(k)
                => LET i == last'.args.instruction_id
                   IN  Pointer(store', i) =
                          IF k - 1 = Pointer(store, i) /\ last'.result.result.success
                          THEN Pointer(store, i) + 1
                          ELSE Pointer(store, i)
       /\ (Called("execute_step") /\ ~HasKey(last'.result, "result")) => store' = store]_vars

\* the second step was run with success while the pointer was at the first: the
\* pointer stays at the first
C21_Witness ==
    /\ last.op = "execute_step" /\ last.raised = ""
    /\ HasKey(last.result, "result") /\ last.result.result.success
    /\ last.args.step_id = "step-2"
    /\ StoredSteps(store, WorkflowId)[2]["status"] = "completed"
    /\ Pointer(store, WorkflowId) = 0

\* C22 (SpecExec): in every reachable state of an instruction with an execution_plan,
\* every step at an index below current_step has status completed, and when
\* current_step < total_steps the step at index current_step does not have status
\* completed.
C22_PointerIsNextUnfinished ==
    \A i \in DOMAIN store :
        HasKey(store[i], "execution_plan")
           => LET plan == store[i]["execution_plan"]
                  steps == plan.steps
              IN  /\ \A j \in 1..Len(steps) :
                        j - 1 < plan.current_step
                           => DictGet(steps[j], "status", PyNone) = "completed"
                  /\ plan.current_step < plan.total_steps
                        => DictGet(steps[plan.current_step + 1], "status", PyNone)
                              # "completed"

\* C23 (SpecExec): after execute_step ran a step to its end, the stored status is
\* completed when every step of the plan then has status completed; when some step
\* is pending or failed the call leaves the status as it was.
C23_CompletedIffAllStepsCompleted ==
    [][\A k \in UNION {1..Len(plan) : plan \in ExecPlans} :
          RanStep(k)
             => LET i == last'.args.instruction_id
                    after == StoredSteps(store', i)
                IN  IF \A j \in 1..Len(after) : after[j]["status"] = "completed"
                    THEN store'[i]["status"] = "completed"
                    ELSE store'[i]["status"] = store[i]["status"]]_vars

\* the call that completed the last open step made the instruction completed
C23_Witness ==
    /\ last.op = "execute_step" /\ last.raised = ""
    /\ HasKey(last.result, "result") /\ last.result.result.success
    /\ last.seq = 2
    /\ \A j \in 1..Len(StoredSteps(store, WorkflowId)) :
          StoredSteps(store, WorkflowId)[j]["status"] = "completed"
    /\ store[WorkflowId]["status"] = "completed"

\* C24 (SpecSteps): every execute_step call that runs a found step to its end, of
\* whatever type and with success or failure, leaves workflow_step = RESULT_SYNTHESIS
\* in the stored document.
C24_RunStepSetsResultSynthesis ==
    [][\A k \in 1..Len(StepKindsPlan) :
          RanStep(k)
             => /\ store'[last'.args.instruction_id]["workflow_step"] = "RESULT_SYNTHESIS"
                /\ last'.result.instruction["workflow_step"] = "RESULT_SYNTHESIS"]_vars

\* a step of a type the code does not know failed, and the document is at
\* RESULT_SYNTHESIS
C24_Witness ==
    /\ last.op = "execute_step" /\ last.raised = ""
    /\ HasKey(last.result, "result") /\ ~last.result.result.success
    /\ last.result.result.step_type = "deployment"
    /\ \E k \in 1..Len(StepKindsPlan) :
          /\ StoredSteps(store, WorkflowId)[k]["status"] = "completed"
          /\ StoredSteps(store, WorkflowId)[k]["type"] = "command_execution"
    /\ store[WorkflowId]["workflow_step"] = "RESULT_SYNTHESIS"

\* the call asks for a dependency installation of some packages with a package
\* manager that is neither npm nor pip, on the step at position k
UnsupportedManagerCall(k) ==
    /\ Called("execute_step")
    /\ Finds(store, last'.args.instruction_id, last'.args.step_id, k)
    /\ DictGet(StoredSteps(store, last'.args.instruction_id)[k], "type", "unknown")
          = "dependency_installation"
    /\ Truthy(DictGet(last'.args.execution_details, "packages", <<>>))
    /\ DictGet(last'.args.execution_details, "package_manager", "npm") \notin {"npm", "pip"}

\* C25 (SpecSteps): execute_step on a dependency_installation step with packages and
\* a package manager other than npm or pip returns the failure 'Unsupported package
\* manager' at once: the stored document (the step's status and result, current_step,
\* status, workflow_step) and the working tree are what they were.
C25_UnsupportedManagerWritesNothing ==
    [][\A k \in 1..Len(StepKindsPlan) :
          UnsupportedManagerCall(k)
             => /\ last'.raised = ""
                /\ last'.result.success = FALSE
                /\ HasKey(last'.result, "error")
                /\ last'.result.error = "Unsupported package manager"
                /\ store' = store
                /\ fs' = fs]_vars

\* the refused call came after a run of the same step that had completed it
C25_Witness ==
    /\ last.op = "execute_step" /\ last.raised = ""
    /\ HasKey(last.result, "error")
    /\ last.result.error = "Unsupported package manager"
    /\ last.seq = 2
    /\ StoredSteps(store, WorkflowId)[4]["status"] = "completed"
    /\ StoredSteps(store, WorkflowId)[4]["result"].success

\* the artifacts of the first n steps whose stored result succeeded, step after step
ArtifactsOfSucceeded(steps, n) ==
    LET upTo[m \in 0..Len(steps)] ==
            IF m = 0 THEN <<>>
            ELSE IF HasKey(steps[m], "result") /\ steps[m]["result"].success
                 THEN upTo[m - 1] \o steps[m]["result"].artifacts
                 ELSE upTo[m - 1]
    IN  upTo[n]

\* C26 (SpecSteps): the summary of the report generate_final_report returns has
\* planned_subtasks = the number of subtasks of task_plan (0 without a task_plan),
\* executed_steps = the number of steps with status completed or failed,
\* successful_steps = the number of steps with status completed, and artifacts = the
\* artifacts, in step order, of the steps whose stored result succeeded; so
\* successful_steps <= executed_steps <= total_steps.
C26_ReportSummaryCounts ==
    (/\ last.op = "generate_final_report" /\ last.raised = ""
     /\ last.result.success)
       => LET instruction == store[last.args.instruction_id]
              steps == instruction["execution_plan"].steps
              summary == last.result.report.summary
          IN  /\ summary.planned_subtasks =
                    IF HasKey(instruction, "task_plan")
                    THEN Len(instruction["task_plan"].subtasks) ELSE 0
              /\ summary.executed_steps =
                    Cardinality({j \in 1..Len(steps) :
                                    steps[j]["status"] \in {"completed", "failed"}})
              /\ summary.successful_steps =
                    Cardinality({j \in 1..Len(steps) : steps[j]["status"] = "completed"})
              /\ summary.artifacts = ArtifactsOfSucceeded(steps, Len(steps))
              /\ summary.successful_steps <= summary.executed_steps
              /\ summary.executed_steps <= instruction["execution_plan"].total_steps
              /\ instruction["final_report"].summary = summary

\* a report over two planned subtasks and two steps that left an artifact each
C26_Witness ==
    /\ last.op = "generate_final_report" /\ last.raised = ""
    /\ last.result.success
    /\ last.result.report.summary.planned_subtasks = 2
    /\ last.result.report.summary.successful_steps = 2
    /\ Len(last.result.report.summary.artifacts) = 2
    /\ last.result.report.summary.artifacts[1].action = "created"
    /\ last.result.report.summary.artifacts[2].action = "modified"

\* the source's type is none of the four the code knows, or the field its type
\* needs is missing or empty
Unsupported(source) ==
    LET source_type == DictGet(source, "type", PyNone)
    IN  \/ source_type \notin {"file", "directory", "command", "search"}
        \/ source_type \in {"file", "directory"} /\ DictGet(source, "path", <<>>) = <<>>
        \/ source_type \in {"command", "search"} /\ DictGet(source, "query", <<>>) = <<>>

\* gather_information returned for a stored instruction
Gathering ==
    /\ CallReturned("gather_information")
    /\ HasKey(store, last.args.instruction_id)

\* C27 (SpecSources): in gather_information a source whose type is none of file,
\* directory, command and search, or whose type is one of them while its path (file,
\* directory) or query (command, search) is missing or empty, gets a result with
\* success = false and the error 'Unsupported source type' for its type; the result
\* is recorded at the source's place and the call returns success.
C27_UnsupportedSourceIsRecorded ==
    Gathering
       => LET sources == last.args.sources
              infos == store[last.args.instruction_id]["gathered_information"].sources
          IN  /\ last.result.success
              /\ Len(infos) = Len(sources)
              /\ \A i \in 1..Len(sources) :
                    Unsupported(sources[i])
                       => /\ infos[i].success = FALSE
                          /\ infos[i].error = "Unsupported source type"
                          /\ infos[i].source_type = DictGet(sources[i], "type", PyNone)

\* a file source without a path and a source of an unknown type were recorded as
\* failures next to each other
C27_Witness ==
    /\ Gathering
    /\ Len(last.args.sources) = 2
    /\ last.args.sources[1] = [type |-> "file", path |-> <<>>]
    /\ last.args.sources[2] = [type |-> "url", path |-> <<"d", "f">>, query |-> <<"a">>]
    /\ LET infos == store[last.args.instruction_id]["gathered_information"].sources
       IN  /\ infos[1].error = "Unsupported source type" /\ infos[1].source_type = "file"
           /\ infos[2].error = "Unsupported source type" /\ infos[2].source_type = "url"

\* the sum of the counts of a dict of counts
SumOfCounts(items) ==
    LET upTo[m \in 0..Len(items)] == IF m = 0 THEN 0 ELSE upTo[m - 1] + items[m].value
    IN  upTo[Len(items)]

\* C28 (SpecSources): after gather_information the instruction, as get_instruction
\* gives it, has in gathered_information one result per source in the order of the
\* sources, summary.total_sources = the number of sources, summary.successful_sources
\* = the number of results with success = true, at most total_sources, and counts in
\* summary.source_types that sum to total_sources.
C28_SummaryCountsSources ==
    Gathering
       => LET sources == last.args.sources
              instruction ==
                  get_instruction_result(store, last.args.instruction_id).instruction
              infos == instruction["gathered_information"].sources
              summary == instruction["gathered_information"].summary
          IN  /\ Len(infos) = Len(sources)
              /\ \A i \in 1..Len(sources) :
                    infos[i].source_type = DictGet(sources[i], "type", PyNone)
              /\ summary.total_sources = Len(sources)
              /\ summary.successful_sources =
                    Cardinality({i \in 1..Len(infos) : infos[i].success})
              /\ summary.successful_sources <= summary.total_sources
              /\ SumOfCounts(summary.source_types) = summary.total_sources

\* C29 (SpecSources): gather_information on an instruction that exists returns
\* success and stores status = information_gathered and workflow_step =
\* INFORMATION_GATHERING, for every list of sources, the empty one and those whose
\* sources all fail included, with or without a task_plan.
C29_GatherAlwaysSucceeds ==
    [][(Called("gather_information") /\ HasKey(store, last'.args.instruction_id))
          => LET i == last'.args.instruction_id
             IN  /\ last'.raised = ""
                 /\ last'.result.success
                 /\ store'[i]["status"] = "information_gathered"
                 /\ store'[i]["workflow_step"] = "INFORMATION_GATHERING"
                 /\ HasKey(store'[i], "task_plan") = HasKey(store[i], "task_plan")]_vars

\* a planned instruction was moved on by a call whose two sources both failed
C29_Witness ==
    /\ Gathering
    /\ HasKey(store[last.args.instruction_id], "task_plan")
    /\ Len(last.args.sources) = 2
    /\ last.result.summary.successful_sources = 0
    /\ store[last.args.instruction_id]["status"] = "information_gathered"

\* C30 (SpecSources): for a source of type file with a non-empty path the result has
\* success = true exactly when the file at the path can be read; when the read fails
\* (the file is missing or cannot be read as text) the result has success = false.
C30_FileSourceSucceedsIffRead ==
    Gathering
       => \A i \in 1..Len(last.args.sources) :
             LET source == last.args.sources[i]
                 info == store[last.args.instruction_id]["gathered_information"].sources[i]
             IN  (DictGet(source, "type", PyNone) = "file"
                     /\ DictGet(source, "path", <<>>) # <<>>)
                    => info.success = ReadFileOk(fs, source.path)

\* C31 (SpecAnalyze): analyze_and_orchestrate on an instruction that has
\* gathered_information returns success; the stored analysis holds the findings,
\* recommendations and decision_points of the call; the stored execution_plan holds
\* the steps of the call, total_steps = their number and current_step = 0, where a
\* step that came without an id has the id step-<n> of its position n (from 1), a
\* step that came without a status has the status pending, and what a step came
\* with is kept; status = analyzed and workflow_step = ANALYSIS_AND_ORCHESTRATION.
C31_AnalyzeStoresPlan ==
    [][(/\ Called("analyze_and_orchestrate")
        /\ HasKey(store, last'.args.instruction_id)
        /\ HasKey(store[last'.args.instruction_id], "gathered_information"))
          => LET instruction == store'[last'.args.instruction_id]
                 analysis == last'.args.analysis
                 given == last'.args.execution_plan
                 plan == instruction["execution_plan"]
             IN  /\ last'.raised = "" /\ last'.result.success
                 /\ \A key \in {"findings", "recommendations", "decision_points"} :
                       instruction["analysis"][key] = DictGet(analysis, key, <<>>)
                 /\ Len(plan.steps) = Len(given)
                 /\ plan.total_steps = Len(given)
                 /\ plan.current_step = 0
                 /\ \A n \in 1..Len(given) :
                       /\ \A key \in DOMAIN given[n] : plan.steps[n][key] = given[n][key]
                       /\ DOMAIN plan.steps[n] = DOMAIN given[n] \cup {"id", "status"}
                       /\ ~HasKey(given[n], "id")
                             => plan.steps[n]["id"] = "step-" \o ToString(n)
                       /\ ~HasKey(given[n], "status")
                             => plan.steps[n]["status"] = "pending"
                 /\ instruction["status"] = "analyzed"
                 /\ instruction["workflow_step"] = "ANALYSIS_AND_ORCHESTRATION"]_vars

\* a plan of two steps was stored: the first came with the id x and kept it, the
\* second came with neither and got step-2 and pending; the analysis came without
\* recommendations and has the empty list
C31_Witness ==
    /\ CallReturned("analyze_and_orchestrate")
    /\ last.args.instruction_id = WorkflowId
    /\ last.result.success
    /\ ~HasKey(last.args.analysis, "recommendations")
    /\ Len(last.args.execution_plan) = 2
    /\ LET plan == store[WorkflowId]["execution_plan"]
       IN  /\ plan.total_steps = 2
           /\ plan.steps[1]["id"] = "x"
           /\ plan.steps[2]["id"] = "step-2"
           /\ plan.steps[2]["status"] = "pending"
    /\ store[WorkflowId]["analysis"].recommendations = <<>>

\* the call runs the file_modification step at position k on a path where there is
\* nothing
ModifiesMissingFile(k) ==
    /\ Called("execute_step")
    /\ Finds(store, last'.args.instruction_id, last'.args.step_id, k)
    /\ DictGet(StoredSteps(store, last'.args.instruction_id)[k], "type", "unknown")
          = "file_modification"
    /\ HasKey(last'.args.execution_details, "file_path")
    /\ ~Exists(fs, last'.args.execution_details.file_path)

\* C32 (SpecExec): execute_step on a file_modification step whose target file does
\* not exist returns the failure 'File not found', leaves the working tree as it was
\* (the file is not created), stores the step as failed with a result that has no
\* artifacts, and leaves current_step where it was.
C32_ModifyMissingFileFails ==
    [][\A k \in UNION {1..Len(plan) : plan \in ExecPlans} :
          ModifiesMissingFile(k)
             => LET i == last'.args.instruction_id
                    step == StoredSteps(store', i)[k]
                IN  /\ last'.raised = ""
                    /\ last'.result.success = FALSE
                    /\ HasKey(last'.result, "result")
                    /\ last'.result.result.error = "File not found"
                    /\ fs' = fs
                    /\ step["status"] = "failed"
                    /\ step["result"].success = FALSE
                    /\ step["result"].artifacts = <<>>
                    /\ Pointer(store', i) = Pointer(store, i)]_vars

\* the first step was completed, then the second, at the pointer, was run on a
\* path where there is nothing
C32_Witness ==
    /\ last.op = "execute_step" /\ last.raised = ""
    /\ HasKey(last.result, "result")
    /\ last.result.result.error = "File not found"
    /\ last.args.step_id = "step-2"
    /\ ~Exists(fs, last.args.execution_details.file_path)
    /\ StoredSteps(store, WorkflowId)[1]["status"] = "completed"
    /\ StoredSteps(store, WorkflowId)[2]["status"] = "failed"
    /\ Pointer(store, WorkflowId) = 1

\* the rules of the call that reject the entry at the path
RejectingRules(tree, path, params) ==
    LET name == path[Len(path)]
    IN  {rule \in {"hidden name", "files suppressed", "exclusion glob", "inclusion pattern"} :
            \/ rule = "hidden name" /\ ~params.show_hidden /\ Dotfile(name)
            \/ rule = "files suppressed" /\ ~IsDir(tree, path) /\ ~params.show_files
            \/ rule = "exclusion glob"
                  /\ \E k \in 1..Len(Excludes(params)) : Fnmatch(name, Excludes(params)[k])
            \/ rule = "inclusion pattern" /\ HasKey(params, "pattern")
                  /\ params.pattern # <<>> /\ ~Fnmatch(name, params.pattern)}

\* the directories the traversal lists: the directory of the call, and every
\* directory no deeper than max_depth below it that no rule rejects, nor any
\* directory above it
Traversed(tree, base, params) ==
    IF params.max_depth < 0 THEN {}
    ELSE {base} \cup
         {path \in DOMAIN tree :
             /\ IsDir(tree, path)
             /\ Len(path) > Len(base) /\ SubSeq(path, 1, Len(base)) = base
             /\ Len(path) - Len(base) <= params.max_depth
             /\ \A k \in (Len(base) + 1)..Len(path) :
                   RejectingRules(tree, SubSeq(path, 1, k), params) = {}}

\* the entries listed in the traversed directories
Listed(tree, base, params) ==
    {path \in DOMAIN tree : Len(path) > 0 /\ Dirname(path) \in Traversed(tree, base, params)}

\* C33 (SpecTree): in tree_directory every entry listed during the traversal that a
\* rule rejects adds exactly one to stats.excluded_items, however many of the rules
\* (hidden name, files suppressed, exclusion glob, inclusion pattern) reject it, and
\* an entry no rule rejects adds nothing to it; so excluded_items + directories +
\* files is the number of entries listed in the traversed directories.
C33_ExcludedCountedOnce ==
    TreeReturned
       => LET listed == Listed(fs, last.args.directory_path, last.args)
              rejected == {path \in listed : RejectingRules(fs, path, last.args) # {}}
              stats == last.result.stats
          IN  /\ stats.excluded_items = Cardinality(rejected)
              /\ stats.directories + stats.files = Cardinality(listed \ rejected)
              /\ stats.excluded_items + stats.directories + stats.files
                    = Cardinality(listed)

\* an entry that three rules reject and two that two rules reject were counted once each
C33_Witness ==
    /\ TreeReturned
    /\ LET listed == Listed(fs, last.args.directory_path, last.args)
           rejected == {path \in listed : RejectingRules(fs, path, last.args) # {}}
       IN  /\ \E path \in rejected : Cardinality(RejectingRules(fs, path, last.args)) >= 3
           /\ \E path \in listed : path \notin rejected
           /\ last.result.stats.excluded_items = Cardinality(rejected)
           /\ Cardinality(rejected) >= 3

\* the lines of the rendering that show an entry
EntryLines(lines) == {i \in 1..Len(lines) : lines[i].kind = "entry"}

\* the path of the entry each line of the rendering shows: a line indented n levels
\* is an entry of the directory shown by the nearest line above it indented n - 1
PathOfLine(lines, base) ==
    LET path[i \in 1..Len(lines)] ==
            IF lines[i].kind # "entry" THEN base
            ELSE LET n == Len(lines[i].prefix)
                     above == {j \in 1..(i - 1) :
                                  lines[j].kind = "entry" /\ Len(lines[j].prefix) = n - 1}
                 IN  IF n = 0 \/ above = {} THEN Append(base, lines[i].name)
                     ELSE Append(path[CHOOSE j \in above : \A k \in above : k <= j],
                                 lines[i].name)
    IN  path

\* the entries of a directory that no rule of the call rejects
Survivors(tree, dir, params) ==
    {q \in Entries(tree, dir) : RejectingRules(tree, q, params) = {}}

\* C34 (SpecTree): at every directory level tree_directory renders, the surviving
\* entries (and only they) appear, in lexicographic order; the last surviving entry
\* has the terminal connector and every other one the mid connector, also when a
\* filter removed entries that sort after the last surviving one.
C34_SortedWithTerminalConnector ==
    TreeReturned
       => LET lines == last.result.tree
              base == last.args.directory_path
              path == PathOfLine(lines, base)
              entries == EntryLines(lines)
          IN  /\ \A dir \in Traversed(fs, base, last.args) :
                    \A q \in Survivors(fs, dir, last.args) :
                       Cardinality({i \in entries : path[i] = q}) = 1
              /\ \A i \in entries :
                    /\ Dirname(path[i]) \in Traversed(fs, base, last.args)
                    /\ path[i] \in Survivors(fs, Dirname(path[i]), last.args)
                    /\ lines[i].connector
                          = IF \A q \in Survivors(fs, Dirname(path[i]), last.args) \ {path[i]} :
                                  NameLess(q[Len(q)], lines[i].name)
                            THEN "last" ELSE "mid"
              /\ \A i \in entries, j \in entries :
                    i < j /\ Dirname(path[i]) = Dirname(path[j])
                       => NameLess(lines[i].name, lines[j].name)

\* a level with two surviving entries, the second with the terminal connector, and
\* a filtered-out entry whose name sorts after both
C34_Witness ==
    /\ TreeReturned
    /\ LET lines == last.result.tree
           base == last.args.directory_path
           path == PathOfLine(lines, base)
       IN  \E i \in EntryLines(lines), j \in EntryLines(lines) :
              /\ i < j /\ Dirname(path[i]) = Dirname(path[j])
              /\ lines[i].connector = "mid" /\ lines[j].connector = "last"
              /\ \E q \in Entries(fs, Dirname(path[j])) :
                    /\ RejectingRules(fs, q, last.args) # {}
                    /\ NameLess(lines[j].name, q[Len(q)])

\* the parts of a document that the later stages add
LaterParts == {"execution_plan", "analysis", "final_report"}

\* the document has the same value under the key before and after, or none in both
SamePart(before, after, key) ==
    /\ HasKey(before, key) <=> HasKey(after, key)
    /\ HasKey(before, key) => after[key] = before[key]

\* C35 (Spec): create_task_plan (with a non-empty subtask list) or gather_information
\* called on an instruction whose status is analyzed or completed succeeds and sets
\* status and workflow_step back to planned/TASK_PLANNING or
\* information_gathered/INFORMATION_GATHERING, while execution_plan, analysis and
\* final_report stay in the document unchanged.
C35_EarlierStepRelowersTags ==
    [][(/\ Called("create_task_plan") \/ Called("gather_information")
        /\ HasKey(store, last'.args.instruction_id)
        /\ store[last'.args.instruction_id].status \in {"analyzed", "completed"}
        /\ last'.op = "create_task_plan" => Len(last'.args.subtasks) >= 1)
          => (/\ last'.raised = ""
              /\ last'.result.success
              /\ LET before == store[last'.args.instruction_id]
                     after == store'[last'.args.instruction_id]
                 IN  /\ last'.op = "create_task_plan"
                          => after.status = "planned" /\ after.workflow_step = "TASK_PLANNING"
                     /\ last'.op = "gather_information"
                          => /\ after.status = "information_gathered"
                             /\ after.workflow_step = "INFORMATION_GATHERING"
                     /\ \A key \in LaterParts : SamePart(before, after, key))]_vars

\* the fifth call, create_task_plan, came after create, gather, analyze and report:
\* the document still has its plan, analysis and report, and is tagged planned again
C35_Witness ==
    /\ CallReturned("create_task_plan")
    /\ last.seq = 5
    /\ last.result.success
    /\ LET doc == store[last.args.instruction_id]
       IN  /\ \A key \in LaterParts : HasKey(doc, key)
           /\ doc.status = "planned"
           /\ doc.workflow_step = "TASK_PLANNING"

\* the values the six operations assign to an instruction's status
AssignedStatuses == {"created", "planned", "information_gathered", "analyzed", "completed"}

\* C37 (Spec): no sequence of the six workflow operations sets an instruction's status
\* to failed: in every reachable state the status of every stored instruction is one
\* of created, planned, information_gathered, analyzed, completed; so a
\* generate_final_report call that returned success has left status completed, also
\* when steps of the plan have failed.
C37_StatusIsNeverFailed ==
    /\ \A i \in DOMAIN store : store[i].status \in AssignedStatuses
    /\ (CallReturned("generate_final_report") /\ last.result.success)
          => store[last.args.instruction_id].status = "completed"

\* a report made after every step of the plan failed
C37_Witness ==
    /\ CallReturned("generate_final_report")
    /\ last.result.success
    /\ HasKey(store[WorkflowId], "execution_plan")
    /\ Len(StoredSteps(store, WorkflowId)) = 2
    /\ \A k \in 1..2 : DictGet(StoredSteps(store, WorkflowId)[k], "status", PyNone) = "failed"
    /\ store[WorkflowId].status = "completed"
    /\ last.result.report.summary.successful_steps = 0

\* the parts of a document that the operations after create_instruction add
AddedParts == {"task_plan", "gathered_information", "analysis", "execution_plan",
               "final_report"}

\* the tools that work on a stored instruction
ToolsOnInstruction ==
    {"get_instruction", "create_task_plan", "gather_information",
     "analyze_and_orchestrate", "execute_step", "generate_final_report"}

\* C38 (Spec): in every reachable state a stored instruction has an execution_plan only
\* if it has gathered_information, and has an analysis exactly when it has an
\* execution_plan; and no call of a tool on a stored instruction removes task_plan,
\* gathered_information, analysis, execution_plan or final_report from it.
C38_PartsAreNestedAndKept ==
    /\ [](\A i \in DOMAIN store :
             /\ HasKey(store[i], "execution_plan") => HasKey(store[i], "gathered_information")
             /\ HasKey(store[i], "analysis") <=> HasKey(store[i], "execution_plan"))
    /\ [][(\E op \in ToolsOnInstruction : Called(op))
             => \A i \in DOMAIN store :
                   /\ HasKey(store', i)
                   /\ \A key \in AddedParts :
                         HasKey(store[i], key) => HasKey(store'[i], key)]_vars

\* an instruction that has all five parts, after a step ran on it and a new plan and
\* new information were stored over it
C38_Witness ==
    /\ HasKey(store, WorkflowId)
    /\ \A key \in AddedParts : HasKey(store[WorkflowId], key)
    /\ CallReturned("gather_information")
    /\ last.result.success
    /\ last.seq >= 6

\* the instructions of the store that have an execution plan
WithPlan(files) == {i \in DOMAIN files : HasKey(files[i], "execution_plan")}

\* C39 (Spec): in every reachable state of an instruction that has an execution_plan,
\* total_steps is the number of steps of the plan and 0 <= current_step <= total_steps;
\* and current_step never decreases except in an analyze_and_orchestrate call, which
\* replaces the plan and sets it to 0.
C39_PointerWithinPlan ==
    /\ [](\A i \in WithPlan(store) :
             LET plan == store[i]["execution_plan"]
             IN  /\ plan.total_steps = Len(plan.steps)
                 /\ 0 <= plan.current_step
                 /\ plan.current_step <= plan.total_steps)
    /\ [][\A i \in WithPlan(store) \cap WithPlan(store') :
             Pointer(store', i) < Pointer(store, i)
                => /\ Called("analyze_and_orchestrate")
                   /\ last'.args.instruction_id = i
                   /\ last'.result.success
                   /\ Pointer(store', i) = 0]_vars

\* the seventh call, analyze_and_orchestrate, set the pointer back to 0 on an
\* instruction whose report counts two successful steps
C39_Witness ==
    /\ CallReturned("analyze_and_orchestrate")
    /\ last.result.success
    /\ last.seq = 7
    /\ HasKey(store[WorkflowId], "final_report")
    /\ store[WorkflowId]["final_report"].summary.successful_steps = 2
    /\ Pointer(store, WorkflowId) = 0
    /\ store[WorkflowId]["execution_plan"].total_steps = 2

\* C40 (Spec): an execute_step call never lowers the instruction status: it leaves
\* the status as it was, or sets it to completed when every step of the plan is
\* completed; a call whose step fails, or after which some step is not completed,
\* leaves the status as it was, also when it was completed already.
C40_ExecuteNeverLowersStatus ==
    [][(Called("execute_step") /\ HasKey(store, last'.args.instruction_id))
          => LET i == last'.args.instruction_id
                 unfinished ==
                    \/ ~HasKey(store'[i], "execution_plan")
                    \/ \E k \in 1..Len(StoredSteps(store', i)) :
                          DictGet(StoredSteps(store', i)[k], "status", PyNone) # "completed"
             IN  /\ HasKey(store', i)
                 /\ store'[i].status \in {store[i].status, "completed"}
                 /\ (unfinished \/ ~last'.result.success)
                       => store'[i].status = store[i].status]_vars

\* the first step ran again and failed on an instruction that the execution of both
\* steps had completed: the status is still completed
C40_Witness ==
    /\ CallReturned("execute_step")
    /\ ~last.result.success
    /\ HasKey(last.result, "result")
    /\ last.args.step_id = "step-1"
    /\ ~HasKey(store[WorkflowId], "final_report")
    /\ StoredSteps(store, WorkflowId)[1].status = "failed"
    /\ StoredSteps(store, WorkflowId)[2].status = "completed"
    /\ Pointer(store, WorkflowId) = 2
    /\ store[WorkflowId].status = "completed"

\* the place of a status in the order the workflow goes through them
StatusRank(status) ==
    CASE status = "created" -> 1
      [] status = "planned" -> 2
      [] status = "information_gathered" -> 3
      [] status = "analyzed" -> 4
      [] status = "completed" -> 5
      [] OTHER -> 0

\* the status each operation of the path leaves, but for execute_step
StatusAfter(op) ==
    CASE op = "create_instruction" -> "created"
      [] op = "create_task_plan" -> "planned"
      [] op = "gather_information" -> "information_gathered"
      [] op = "analyze_and_orchestrate" -> "analyzed"
      [] op = "generate_final_report" -> "completed"

\* the k-th step of the plan has just run with success, the steps before it too
HappyExecuted(k) ==
    /\ CallReturned("execute_step")
    /\ last.result.success
    /\ last.seq = 4 + k

=============================================================================
